---- MODULE Spec2Model ----
(***************************************************************************)
(* Multi-frustum visibility and draw-command scheduling of SceneView.      *)
(*                                                                         *)
(* Distances are modelled as integers (one unit of depth each); the        *)
(* logarithm of createPotentiallyVisibleSet / the constructor is computed  *)
(* exactly (the least k with near * ratio^k >= far), or, where logRounding *)
(* is set, with the finite resolution of Math.log.                         *)
(***************************************************************************)
EXTENDS Integers, Sequences, FiniteSets, TLC

(***************************************************************************)
(* Bounds of the model.                                                    *)
(***************************************************************************)
\* largest number of commands the producers append in one frame
MaxCommands == 2
\* number of frames rendered in one behaviour
MaxFrames == 2
\* camera.frustum.near and camera.frustum.far of the small camera
CameraNear == 1
CameraFar == 8
\* farToNearRatio is drawn from 2..MaxRatio for the small camera
MaxRatio == 3
\* inputs of the direct updateFrustums calls (SpecPartition)
MaxNear == 3
MaxFar == 9
MaxFrustums == 4
\* calls of initializeFrame that are followed
MaxCalls == 250

(***************************************************************************)
(* Program constants.                                                      *)
(***************************************************************************)
\* Pass enum
GLOBE == 0
OPAQUE == 1
TRANSLUCENT == 2
OVERLAY == 3
NUMBER_OF_PASSES == 4
\* the value of _shaderFrameCount at which the released shaders are destroyed
ShaderFrames == 120
\* default farToNearRatio, and the camera of the documented scenario
DefaultFarToNearRatio == 1000
ScenarioNear == 1
ScenarioFar == 1000000
\* Number.MAX_VALUE: above every distance of the model.
MAX_VALUE == 1073741824
\* Number.MIN_VALUE (5e-324): positive, below every positive distance of the
\* model, which are whole units; it is only ever compared through max/min.
MIN_VALUE == 0

Passes == 0..(NUMBER_OF_PASSES - 1)
NoBV == [defined |-> FALSE]
Undefined == -1
\* the doubles Infinity and NaN, as the values of a slice count
Infinity == 2147483647
NaN == -2

Max(a, b) == IF a >= b THEN a ELSE b
Min(a, b) == IF a <= b THEN a ELSE b

RECURSIVE Pow(_, _)
\* Math.pow(base, e) for a whole exponent e >= 0
Pow(base, e) == IF e = 0 THEN 1 ELSE base * Pow(base, e - 1)

RECURSIVE CeilLog(_, _, _, _)
CeilLog(cur, far, ratio, k) ==
    IF cur >= far THEN k ELSE CeilLog(cur * ratio, far, ratio, k + 1)

\* Math.ceil(Math.log(far / near) / Math.log(farToNearRatio)) for whole
\* 0 <= near <= far.  far / near is Infinity for near = 0 < far and NaN for
\* 0 / 0; Math.log(ratio) is NaN for ratio < 0, -Infinity for 0 and 0 for 1;
\* the quotient -0 of a finite logarithm by -Infinity is the count 0.
NumFrustums(near, far, ratio) ==
    IF ratio < 0 \/ (near = 0 /\ far = 0) THEN NaN
    ELSE IF near = 0 THEN (IF ratio = 0 THEN NaN ELSE Infinity)
    ELSE IF far = near THEN (IF ratio = 1 THEN NaN ELSE 0)
    ELSE IF ratio = 0 THEN 0
    ELSE IF ratio = 1 THEN Infinity
    ELSE CeilLog(near, far, ratio, 0)

\* the least whole number that is at least a / b, for b > 0
CeilDiv(a, b) == (a + b - 1) \div b

\* the resolution of the quotient of the two logarithms: an excess of
\* far / near over a power of the ratio of less than one part in
\* LogResolution is lost
LogResolution == 512

\* the same expression as the doubles compute it: Math.log rounds, so the
\* count is the least k >= 1 that far / near exceeds ratio^k by less than
\* the resolution
NumFrustumsRounded(near, far, ratio) ==
    IF near > 0 /\ far > near /\ ratio >= 2
    THEN Max(1, CeilLog(1, CeilDiv(far * LogResolution,
                                   near * (LogResolution + 1)), ratio, 0))
    ELSE NumFrustums(near, far, ratio)

\* frustumCommandsList.length = numFrustums throws a RangeError
InvalidArrayLength(numFrustums) ==
    numFrustums = Infinity \/ numFrustums = NaN \/ numFrustums < 0

RECURSIVE BitOr(_, _)
\* a | b on non-negative integers
BitOr(a, b) ==
    IF a = 0 THEN b
    ELSE IF b = 0 THEN a
    ELSE (IF a % 2 = 1 \/ b % 2 = 1 THEN 1 ELSE 0) + 2 * BitOr(a \div 2, b \div 2)

\* the bit of the next slice
ShiftLeft1Next(i) == Pow(2, i + 1)

\* 1 << i
ShiftLeft1(i) == Pow(2, i)

(***************************************************************************)
(* FrustumCommands: one slice, with its per-pass buffers and counts.       *)
(* obj is the identity of the object (the allocation that created it).     *)
(***************************************************************************)
FrustumCommands(near, far, obj) ==
    [near |-> near, far |-> far, obj |-> obj,
     indices |-> [p \in Passes |-> 0],
     commands |-> [p \in Passes |-> << >>]]

\* updateFrustums, always allocating (no reuse of the slice objects)
updateFrustumsRealloc(near, far, farToNearRatio, numFrustums, frustumCommandsList, nextObj) ==
    [list |-> [m \in 1..numFrustums |->
                 LET curNear == Max(near, Pow(farToNearRatio, m - 1) * near)
                     curFar == Min(far, farToNearRatio * curNear)
                 IN  FrustumCommands(curNear, curFar, nextObj + m)],
     nextObj |-> nextObj + numFrustums]

\* updateFrustums, with the far of a slice one unit short
updateFrustumsShortFar(near, far, farToNearRatio, numFrustums, frustumCommandsList, nextObj) ==
    LET length == Len(frustumCommandsList)
    IN  [list |-> [m \in 1..numFrustums |->
                 LET curNear == Max(near, Pow(farToNearRatio, m - 1) * near)
                     curFar == Min(far, farToNearRatio * curNear - 1)
                 IN  IF m > length
                     THEN FrustumCommands(curNear, curFar, nextObj + (m - length))
                     ELSE [frustumCommandsList[m] EXCEPT !.near = curNear, !.far = curFar]],
         nextObj |-> nextObj + Max(0, numFrustums - length)]

\* updateFrustums, with the exponent of the ratio counted from 1
updateFrustumsFromOne(near, far, farToNearRatio, numFrustums, frustumCommandsList, nextObj) ==
    LET length == Len(frustumCommandsList)
    IN  [list |-> [m \in 1..numFrustums |->
                 LET curNear == Max(near, Pow(farToNearRatio, m) * near)
                     curFar == Min(far, farToNearRatio * curNear)
                 IN  IF m > length
                     THEN FrustumCommands(curNear, curFar, nextObj + (m - length))
                     ELSE [frustumCommandsList[m] EXCEPT !.near = curNear, !.far = curFar]],
         nextObj |-> nextObj + Max(0, numFrustums - length)]

\* updateFrustums: the list is cut or grown to numFrustums; a slot that holds
\* a slice keeps it and has its near/far rewritten, an empty slot gets a new
\* slice.  nextObj counts the slices allocated so far.
updateFrustums(near, far, farToNearRatio, numFrustums, frustumCommandsList, nextObj) ==
    LET length == Len(frustumCommandsList)
    IN  [list |-> [m \in 1..numFrustums |->
                 LET curNear == Max(near, Pow(farToNearRatio, m - 1) * near)
                     curFar == Min(far, farToNearRatio * curNear)
                 IN  IF m > length
                     THEN FrustumCommands(curNear, curFar, nextObj + (m - length))
                     ELSE [frustumCommandsList[m] EXCEPT !.near = curNear, !.far = curFar]],
         nextObj |-> nextObj + Max(0, numFrustums - length)]

(***************************************************************************)
(* Geometry of the collaborators.  The camera sits at the origin and looks *)
(* along +x; a bounding sphere is its centre <<x, y, z>> and its radius.   *)
(***************************************************************************)
\* half width and half height of the camera's frustum
HalfWidth == 2

Dot(a, b) == a[1] * b[1] + a[2] * b[2] + a[3] * b[3]

\* frustum.computeCullingVolume: left, right, bottom, top, near, far
computeCullingVolume(near, far) ==
    << [normal |-> << 0, 1, 0 >>, distance |-> HalfWidth],
       [normal |-> << 0, -1, 0 >>, distance |-> HalfWidth],
       [normal |-> << 0, 0, 1 >>, distance |-> HalfWidth],
       [normal |-> << 0, 0, -1 >>, distance |-> HalfWidth],
       [normal |-> << 1, 0, 0 >>, distance |-> 0 - near],
       [normal |-> << -1, 0, 0 >>, distance |-> far] >>

\* CullingVolume.computeVisibility: OUTSIDE when the sphere lies wholly behind
\* one of the planes
computeVisibility(planes, boundingVolume) ==
    IF \E k \in 1..Len(planes) :
           Dot(planes[k].normal, boundingVolume.center) + planes[k].distance
               < 0 - boundingVolume.radius
    THEN "OUTSIDE"
    ELSE IF \E k \in 1..Len(planes) :
           Dot(planes[k].normal, boundingVolume.center) + planes[k].distance
               < boundingVolume.radius
    THEN "INTERSECTING"
    ELSE "INSIDE"

\* Occluder.isBoundingSphereVisible: the answer of the occluder for the sphere
isBoundingSphereVisible(boundingVolume) == ~boundingVolume.behindOccluder

\* BoundingSphere.computePlaneDistances(sphere, position, direction)
computePlaneDistances(boundingVolume) ==
    [start |-> boundingVolume.center[1] - boundingVolume.radius,
     stop |-> boundingVolume.center[1] + boundingVolume.radius]

\* getOccluder: an occluder exists in 3D mode when the scene has a globe
getOccluder(mode, globe) == mode = "SCENE3D" /\ globe

(***************************************************************************)
(* insertIntoBin                                                           *)
(***************************************************************************)
MaskOf(masks, command) ==
    IF command \in DOMAIN masks THEN masks[command] ELSE Undefined

SetMask(masks, command, value) ==
    [c \in (DOMAIN masks) \cup {command} |->
        IF c = command THEN value ELSE masks[c]]

\* commands[pass][index] = command on a buffer that keeps its old entries
StoreAt(buffer, index, command) ==
    IF index < Len(buffer)
    THEN [buffer EXCEPT ![index + 1] = command]
    ELSE Append(buffer, command)

\* the bucket of a command: every ClearCommand goes to OPAQUE
BucketPass(command) == IF command.clear THEN OPAQUE ELSE command.pass

\* the bucket of a command, with the ClearCommand test dropped
BucketPassGlobe(command) == GLOBE

RECURSIVE InsertLoopNoBreak(_, _, _, _, _, _)
\* the loop of insertIntoBin without the executeInClosestFrustum break
InsertLoopNoBreak(list, mask, i, command, distance, debug) ==
    IF i > Len(list) THEN [list |-> list, mask |-> mask]
    ELSE IF distance.start > list[i].far
    THEN InsertLoopNoBreak(list, mask, i + 1, command, distance, debug)
    ELSE IF distance.stop < list[i].near
    THEN [list |-> list, mask |-> mask]
    ELSE LET pass == BucketPass(command)
             index == list[i].indices[pass]
             list2 == [list EXCEPT
                          ![i].indices[pass] = index + 1,
                          ![i].commands[pass] = StoreAt(@, index, command)]
             mask2 == IF debug THEN BitOr(mask, ShiftLeft1(i - 1)) ELSE mask
         IN  InsertLoopNoBreak(list2, mask2, i + 1, command, distance, debug)

RECURSIVE InsertLoopBreakOnSkip(_, _, _, _, _, _)
\* the loop of insertIntoBin leaving at the first slice that lies before the
\* interval
InsertLoopBreakOnSkip(list, mask, i, command, distance, debug) ==
    IF i > Len(list) THEN [list |-> list, mask |-> mask]
    ELSE IF distance.start > list[i].far
    THEN [list |-> list, mask |-> mask]
    ELSE IF distance.stop < list[i].near
    THEN [list |-> list, mask |-> mask]
    ELSE LET pass == BucketPass(command)
             index == list[i].indices[pass]
             list2 == [list EXCEPT
                          ![i].indices[pass] = index + 1,
                          ![i].commands[pass] = StoreAt(@, index, command)]
             mask2 == IF debug THEN BitOr(mask, ShiftLeft1(i - 1)) ELSE mask
         IN  IF command.executeInClosestFrustum
             THEN [list |-> list2, mask |-> mask2]
             ELSE InsertLoopBreakOnSkip(list2, mask2, i + 1, command, distance, debug)

RECURSIVE InsertLoop(_, _, _, _, _, _)
\* the loop of insertIntoBin over the slices from index i (1-based here)
InsertLoop(list, mask, i, command, distance, debug) ==
    IF i > Len(list) THEN [list |-> list, mask |-> mask]
    ELSE IF distance.start > list[i].far
    THEN InsertLoop(list, mask, i + 1, command, distance, debug)
    ELSE IF distance.stop < list[i].near
    THEN [list |-> list, mask |-> mask]
    ELSE LET pass == BucketPass(command)
             index == list[i].indices[pass]
             list2 == [list EXCEPT
                          ![i].indices[pass] = index + 1,
                          ![i].commands[pass] = StoreAt(@, index, command)]
             mask2 == IF debug THEN BitOr(mask, ShiftLeft1(i - 1)) ELSE mask
         IN  IF command.executeInClosestFrustum
             THEN [list |-> list2, mask |-> mask2]
             ELSE InsertLoop(list2, mask2, i + 1, command, distance, debug)

\* commandsInFrustums[mask] = defined(...) ? ... + 1 : 1
CountMask(cf, mask) ==
    [k \in (DOMAIN cf) \cup {mask} |->
        IF k = mask THEN (IF mask \in DOMAIN cf THEN cf[mask] + 1 ELSE 1)
        ELSE cf[k]]

\* the end of insertIntoBin with the insertions lost under debugShowFrustums
UpdateStatisticsDropsBins(s, command, r, debug) ==
    IF debug
    THEN [s EXCEPT
            !.masks = SetMask(s.masks, command, r.mask),
            !.stats = [defined |-> TRUE,
                       totalCommands |-> s.stats.totalCommands + 1,
                       commandsInFrustums |->
                           CountMask(s.stats.commandsInFrustums, r.mask)]]
    ELSE [s EXCEPT !.list = r.list]

\* the end of insertIntoBin: r is what the loop left, the slice list and
\* the command's debugOverlappingFrustums
UpdateStatistics(s, command, r, debug) ==
    IF debug
    THEN [s EXCEPT
            !.list = r.list,
            !.masks = SetMask(s.masks, command, r.mask),
            !.stats = [defined |-> TRUE,
                       totalCommands |-> s.stats.totalCommands + 1,
                       commandsInFrustums |->
                           CountMask(s.stats.commandsInFrustums, r.mask)]]
    ELSE [s EXCEPT !.list = r.list]

\* insertIntoBin(scene, command, distance); s holds the slice list, the
\* commands' debugOverlappingFrustums and _debugFrustumStatistics
insertIntoBin(s, command, distance, debug) ==
    UpdateStatistics(s, command,
        InsertLoop(s.list, IF debug THEN 0 ELSE MaskOf(s.masks, command),
                   1, command, distance, debug),
        debug)

(***************************************************************************)
(* createPotentiallyVisibleSet                                             *)
(***************************************************************************)
\* the reset left out
ResetIndicesNone(list) == list

\* indices[p] = 0 for every slice and pass; the buffers keep their entries
ResetIndices(list) ==
    [n \in 1..Len(list) |-> [list[n] EXCEPT !.indices = [p \in Passes |-> 0]]]

\* the culling test with the cull flag ignored
CulledAlways(command, planes, occluder) ==
    computeVisibility(planes, command.boundingVolume) = "OUTSIDE"
    \/ (occluder /\ ~isBoundingSphereVisible(command.boundingVolume))

\* the culling test that never rejects
CulledNever(command, planes, occluder) == FALSE

\* the culling test of a command that has a bounding volume
Culled(command, planes, occluder) ==
    command.cull
    /\ (computeVisibility(planes, command.boundingVolume) = "OUTSIDE"
        \/ (occluder /\ ~isBoundingSphereVisible(command.boundingVolume)))

\* the pass test with no pass left out of the binning
SkipsBinningNever(pass) == FALSE

\* pass !== Pass.OVERLAY, negated: the command is left out of the binning
SkipsBinning(pass) == pass = OVERLAY

RECURSIVE CommandLoop(_, _, _, _)
\* the loop over commandList from index i; s carries the slice list, masks,
\* statistics, the scratch interval and the locals near, far and undefBV;
\* env the camera, the frame state and debugShowFrustums
CommandLoop(s, i, commandList, env) ==
    IF i > Len(commandList) THEN s
    ELSE LET command == commandList[i] IN
         IF SkipsBinning(command.pass)
         THEN CommandLoop(s, i + 1, commandList, env)
         ELSE IF command.boundingVolume.defined
         THEN IF Culled(command, env.planes, env.occluder)
              THEN CommandLoop(s, i + 1, commandList, env)
              ELSE LET d == computePlaneDistances(command.boundingVolume)
                       s2 == [s EXCEPT !.distances = d,
                                       !.near = Min(s.near, d.start),
                                       !.far = Max(s.far, d.stop)]
                   IN  CommandLoop(insertIntoBin(s2, command, d, env.debug),
                                   i + 1, commandList, env)
         ELSE LET d == [start |-> env.cameraNear, stop |-> env.cameraFar]
                  s2 == [s EXCEPT !.distances = d,
                                  !.undefBV = ~command.clear]
              IN  CommandLoop(insertIntoBin(s2, command, d, env.debug),
                              i + 1, commandList, env)

\* the repartition test that never asks for a repartition
NeedsRepartitionNever(near, far, numFrustums, frustumCommandsList) == FALSE

\* the repartition test that ignores the temporal coherence
NeedsRepartitionEager(near, far, numFrustums, frustumCommandsList) ==
    near # MAX_VALUE
    /\ (numFrustums # Len(frustumCommandsList)
        \/ (Len(frustumCommandsList) # 0
            /\ (near # frustumCommandsList[1].near
                \/ far # frustumCommandsList[Len(frustumCommandsList)].far)))

\* the test that guards updateFrustums and the recursive call
NeedsRepartition(near, far, numFrustums, frustumCommandsList) ==
    LET numberOfFrustums == Len(frustumCommandsList)
    IN  near # MAX_VALUE
        /\ (numFrustums # numberOfFrustums
            \/ (Len(frustumCommandsList) # 0
                /\ (near < frustumCommandsList[1].near
                    \/ far > frustumCommandsList[numberOfFrustums].far)))

\* the end of the pass with the discovered far not held to the camera's far
ClampExtentFarUnclamped(scn, s, env) ==
    LET near == IF s.undefBV THEN env.cameraNear
                ELSE Min(Max(s.near, env.cameraNear), env.cameraFar)
        far == IF s.undefBV THEN env.cameraFar ELSE Max(s.far, near)
        numFrustums == IF env.logRounding
                       THEN NumFrustumsRounded(near, far, env.farToNearRatio)
                       ELSE NumFrustums(near, far, env.farToNearRatio)
        repartition == NeedsRepartition(near, far, numFrustums, s.list)
    IN  [list |-> s.list, nextObj |-> scn.nextObj, masks |-> s.masks,
         stats |-> s.stats, distances |-> s.distances,
         found |-> [near |-> s.near, far |-> s.far, undefBV |-> s.undefBV],
         near |-> near, far |-> far, numFrustums |-> numFrustums,
         repartition |-> repartition]

\* what follows the loop over commandList: s is what the loop left; the
\* extent is clamped to the camera's range and the repartition is decided
ClampExtent(scn, s, env) ==
    LET near == IF s.undefBV THEN env.cameraNear
                ELSE Min(Max(s.near, env.cameraNear), env.cameraFar)
        far == IF s.undefBV THEN env.cameraFar
               ELSE Max(Min(s.far, env.cameraFar), near)
        numFrustums == IF env.logRounding
                       THEN NumFrustumsRounded(near, far, env.farToNearRatio)
                       ELSE NumFrustums(near, far, env.farToNearRatio)
        repartition == NeedsRepartition(near, far, numFrustums, s.list)
    IN  [list |-> s.list, nextObj |-> scn.nextObj, masks |-> s.masks,
         stats |-> s.stats, distances |-> s.distances,
         found |-> [near |-> s.near, far |-> s.far, undefBV |-> s.undefBV],
         near |-> near, far |-> far, numFrustums |-> numFrustums,
         repartition |-> repartition]

\* one invocation of createPotentiallyVisibleSet up to its recursive call:
\* the reset, the binning loop, the clamped extent and the repartition
\* decision
PvsPass(scn, commandList, env) ==
    ClampExtent(scn,
        CommandLoop([list |-> ResetIndices(scn.list),
                     masks |-> scn.masks,
                     stats |-> IF env.debug
                               THEN [defined |-> TRUE, totalCommands |-> 0,
                                     commandsInFrustums |-> << >>]
                               ELSE scn.stats,
                     distances |-> scn.distances,
                     near |-> MAX_VALUE, far |-> MIN_VALUE, undefBV |-> FALSE],
                    1, commandList, env),
        env)

\* deepest recursion of createPotentiallyVisibleSet the model follows
MaxRecursion == 4

RECURSIVE createPotentiallyVisibleSet(_, _, _, _)
RECURSIVE Repartition(_, _, _, _)
\* the end of createPotentiallyVisibleSet: r is what the pass left; on a
\* repartition, updateFrustums and the recursive call.  updateFrustums throws
\* on a count that is no array length; a recursion that is still asking for
\* a repartition at depth MaxRecursion is followed no further (overflow) and
\* ends as the exhausted call stack does.
Repartition(r, commandList, env, calls) ==
    LET base == [list |-> r.list, nextObj |-> r.nextObj, masks |-> r.masks,
                 stats |-> r.stats, distances |-> r.distances]
    IN  IF r.repartition /\ InvalidArrayLength(r.numFrustums)
        THEN [scn |-> base, last |-> r, calls |-> calls, overflow |-> FALSE,
              error |-> "RangeError"]
        ELSE IF r.repartition /\ calls < MaxRecursion
        THEN LET u == updateFrustums(r.near, r.far, env.farToNearRatio,
                                     r.numFrustums, r.list, r.nextObj)
             IN  createPotentiallyVisibleSet(
                     [base EXCEPT !.list = u.list, !.nextObj = u.nextObj],
                     commandList, env, calls + 1)
        ELSE [scn |-> base, last |-> r, calls |-> calls,
              overflow |-> r.repartition,
              error |-> IF r.repartition THEN "RangeError" ELSE "none"]

\* createPotentiallyVisibleSet(scene): a pass, then, on a repartition,
\* updateFrustums and the recursive call.  calls counts the invocations.
createPotentiallyVisibleSet(scn, commandList, env, calls) ==
    Repartition(PvsPass(scn, commandList, env), commandList, env, calls)

(***************************************************************************)
(* The commands the producers may append.                                  *)
(***************************************************************************)
Sphere(x, y, radius, behind) ==
    [defined |-> TRUE, center |-> << x, y, 0 >>, radius |-> radius,
     behindOccluder |-> behind]

DrawCommand(pass, boundingVolume, cull, closest) ==
    [clear |-> FALSE, pass |-> pass, boundingVolume |-> boundingVolume,
     cull |-> cull, executeInClosestFrustum |-> closest]

\* a ClearCommand; it has a pass field like any command
ClearCommand(pass) ==
    [clear |-> TRUE, pass |-> pass, boundingVolume |-> NoBV,
     cull |-> TRUE, executeInClosestFrustum |-> FALSE]

\* a lateral offset that puts a small sphere outside the culling volume
Aside == HalfWidth + 3

\* commands of the small camera: spheres inside, before, beyond and across
\* the camera's depth range, with zero and negative radius, aside of the
\* culling volume and behind the occluder, of every pass, and commands
\* without a bounding volume
Commands ==
    { DrawCommand(OPAQUE, Sphere(3, 0, 1, FALSE), TRUE, FALSE),
      DrawCommand(GLOBE, Sphere(CameraFar - 2, 0, 1, FALSE), TRUE, FALSE),
      DrawCommand(TRANSLUCENT, Sphere(3, 0, 0, FALSE), TRUE, FALSE),
      DrawCommand(OPAQUE, Sphere(3, 0, CameraFar, FALSE), TRUE, TRUE),
      DrawCommand(OPAQUE, Sphere(CameraFar + 3, 0, 1, FALSE), FALSE, FALSE),
      DrawCommand(OPAQUE, Sphere(0, 0, 0, FALSE), FALSE, FALSE),
      DrawCommand(OPAQUE, Sphere(3, 0, 0 - 1, FALSE), FALSE, FALSE),
      DrawCommand(OPAQUE, Sphere(3, Aside, 1, FALSE), TRUE, FALSE),
      DrawCommand(OPAQUE, Sphere(3, Aside, 1, FALSE), FALSE, FALSE),
      DrawCommand(OPAQUE, Sphere(3, 0, 1, TRUE), TRUE, FALSE),
      DrawCommand(OVERLAY, Sphere(3, 0, 1, FALSE), TRUE, FALSE),
      DrawCommand(OPAQUE, NoBV, TRUE, FALSE),
      ClearCommand(OPAQUE) }

\* commands of the documented scenario: intervals [10,50] and [500,1500],
\* commands without a bounding volume, one of them with
\* executeInClosestFrustum, and OVERLAY commands without a bounding volume
\* and with a sphere beyond the others
ScenarioCommands ==
    { DrawCommand(OPAQUE, Sphere(30, 0, 20, FALSE), FALSE, FALSE),
      DrawCommand(OPAQUE, Sphere(1000, 0, 500, FALSE), TRUE, FALSE),
      DrawCommand(OPAQUE, Sphere(30, 0, 20, FALSE), TRUE, TRUE),
      DrawCommand(GLOBE, Sphere(1000, Aside + 500, 500, FALSE), TRUE, FALSE),
      DrawCommand(GLOBE, NoBV, TRUE, FALSE),
      DrawCommand(OPAQUE, NoBV, TRUE, TRUE),
      DrawCommand(OVERLAY, NoBV, FALSE, FALSE),
      DrawCommand(OVERLAY, Sphere(5000, 0, 100, FALSE), FALSE, FALSE),
      ClearCommand(OPAQUE) }

\* the commands whose execute throws
ThrowingCommands ==
    { DrawCommand(OPAQUE, Sphere(5, 0, 1, FALSE), TRUE, FALSE) }

\* commands of the frames that are followed through executeCommands: of
\* every pass, in one slice and across slices, one that throws, and a
\* ClearCommand
FrameCommands ==
    { DrawCommand(OPAQUE, Sphere(3, 0, 1, FALSE), TRUE, FALSE),
      DrawCommand(GLOBE, Sphere(CameraFar - 2, 0, 1, FALSE), TRUE, FALSE),
      DrawCommand(OPAQUE, Sphere(5, 0, 1, FALSE), TRUE, FALSE),
      DrawCommand(TRANSLUCENT, Sphere(3, 0, 0, FALSE), TRUE, FALSE),
      DrawCommand(OVERLAY, Sphere(3, 0, 1, FALSE), TRUE, FALSE),
      ClearCommand(OPAQUE) }

\* commands of the frames rendered under a changed ratio or camera
ConfigCommands ==
    { DrawCommand(OPAQUE, Sphere(3, 0, 1, FALSE), TRUE, FALSE),
      DrawCommand(GLOBE, Sphere(CameraFar - 2, 0, 1, FALSE), TRUE, FALSE),
      DrawCommand(OPAQUE, NoBV, TRUE, FALSE) }

\* commands of the documented camera whose extent ends just beyond a power
\* of the ratio: intervals [1,1001], [10,50] and [500,1500]
RoundingCommands ==
    { DrawCommand(OPAQUE, Sphere(501, 0, 500, FALSE), TRUE, FALSE),
      DrawCommand(OPAQUE, Sphere(30, 0, 20, FALSE), FALSE, FALSE),
      DrawCommand(GLOBE, Sphere(1000, 0, 500, FALSE), TRUE, FALSE),
      DrawCommand(OVERLAY, Sphere(30, 0, 20, FALSE), TRUE, FALSE),
      ClearCommand(OPAQUE) }

\* the Command Buffers of a frame: up to MaxCommands distinct commands
Buffers(universe) ==
    { b \in UNION { [1..n -> universe] : n \in 0..MaxCommands } :
        \A i, j \in DOMAIN b : i # j => b[i] # b[j] }

\* the scene's mode and whether it has a globe
Scenes ==
    { [mode |-> "SCENE3D", globe |-> TRUE],
      [mode |-> "SCENE2D", globe |-> TRUE] }

(***************************************************************************)
(* executeCommand and executeCommands.  x carries what the frame has done  *)
(* so far: executed, the calls of a buffer command's execute in order,     *)
(* each with the slice and the bucket it was taken from and the number of  *)
(* steps of sceneCommands that came before it; sceneCommands, the scene's  *)
(* own steps in order, the executions of its clear commands and the        *)
(* updates of the uniform state's frustum; error, "none" until an execute  *)
(* throws; list, the slice list as executeCommands leaves it; frustum, the  *)
(* working copy of the camera's frustum, and us, the frustum the uniform   *)
(* state was last updated with, both with near in hundredths of a unit;    *)
(* framebuffer, passState.framebuffer, with original and fb the values     *)
(* executeCommands saved of it.  cfg holds debugCommandFilter, the debug   *)
(* flags, the camera's frustum, whether the globe depth is supported and   *)
(* passState.framebuffer at the call.                                      *)
(***************************************************************************)
\* a framebuffer: the one passState holds before the first frame, the globe
\* depth's, or that of the debug globe depth of a slice
Framebuffer(name, index) == [name |-> name, index |-> index]
DefaultFramebuffer == Framebuffer("default", Undefined)

\* debugCommandFilter: undefined, or a function that returns false exactly
\* for the commands in rejects
NoFilter == [defined |-> FALSE, rejects |-> {}]
Filter(rejects) == [defined |-> TRUE, rejects |-> rejects]

\* scene.debugCommandFilter(command)
FilterAccepts(filter, command) == command \notin filter.rejects

\* command.execute throws
Throws(command) == command \in ThrowingCommands

\* defined(command.shaderProgram): draw commands carry a shader program, a
\* ClearCommand carries none
HasShaderProgram(command) == ~command.clear

\* command.execute(...): the call is recorded; a throw sets the error
execute(x, command, index, pass) ==
    [x EXCEPT !.executed = Append(@, [slice |-> index, pass |-> pass,
                                      command |-> command,
                                      after |-> Len(x.sceneCommands),
                                      projection |-> x.us]),
              !.error = IF Throws(command) THEN "ExecuteError" ELSE @]

\* executeCommand with the debugCommandFilter test dropped
executeCommandUnfiltered(x, command, index, pass, cfg) ==
    IF cfg.debug
    THEN (IF HasShaderProgram(command) THEN execute(x, command, index, pass)
          ELSE x)
    ELSE execute(x, command, index, pass)

\* executeCommand(command, scene, context, passState): the filter, then
\* executeDebugCommand under debugShowCommands or debugShowFrustums, else
\* command.execute
executeCommand(x, command, index, pass, cfg) ==
    IF cfg.filter.defined /\ ~FilterAccepts(cfg.filter, command)
    THEN x
    ELSE IF cfg.debug
    THEN (IF HasShaderProgram(command) THEN execute(x, command, index, pass)
          ELSE x)
    ELSE execute(x, command, index, pass)

RECURSIVE ExecuteBucket(_, _, _, _, _, _, _)
\* for (j = 0; j < length; ++j) executeCommand(commands[j], ...); a throw
\* leaves the loop
ExecuteBucket(x, commands, length, j, index, pass, cfg) ==
    IF x.error # "none" \/ j > length THEN x
    ELSE ExecuteBucket(executeCommand(x, commands[j], index, pass, cfg),
                       commands, length, j + 1, index, pass, cfg)

RECURSIVE ExecutePassesToLast(_, _, _, _, _)
\* the loop over the passes running to the last pass
ExecutePassesToLast(x, frustumCommands, pass, index, cfg) ==
    IF x.error # "none" \/ pass >= NUMBER_OF_PASSES THEN x
    ELSE ExecutePassesToLast(
             ExecuteBucket(x, frustumCommands.commands[pass],
                           frustumCommands.indices[pass], 1, index, pass, cfg),
             frustumCommands, pass + 1, index, cfg)

RECURSIVE ExecutePasses(_, _, _, _, _)
\* for (pass = startPass; pass < endPass; ++pass) with endPass = TRANSLUCENT
ExecutePasses(x, frustumCommands, pass, index, cfg) ==
    IF x.error # "none" \/ pass >= TRANSLUCENT THEN x
    ELSE ExecutePasses(
             ExecuteBucket(x, frustumCommands.commands[pass],
                           frustumCommands.indices[pass], 1, index, pass, cfg),
             frustumCommands, pass + 1, index, cfg)

\* a step of the scene itself: clearColorCommand.execute,
\* depthClearCommand.execute or us.updateFrustum, with the slice it is for
SceneCommand(name, index) == [command |-> name, slice |-> index]

\* us.updateFrustum(frustum): the uniforms take the working frustum
UpdateFrustum(x, index) ==
    [x EXCEPT !.sceneCommands = Append(@, SceneCommand("updateFrustum", index)),
              !.us = x.frustum]

\* the near of the working frustum with the factor applied to every slice
BiasedNearEverySlice(near, index) == 99 * near

\* frustum.near = frustumCommands.near; if (index !== 0) frustum.near *= 0.99,
\* in hundredths
BiasedNear(near, index) == IF index # 0 THEN 99 * near ELSE 100 * near

\* the start of a slice with the slice itself taken for the working frustum:
\* the factor is applied to the recorded near
SliceFrustumInPlace(x, frustumCommands, index, cfg) ==
    [x EXCEPT !.frustum = [near100 |-> BiasedNear(frustumCommands.near, index),
                           far |-> frustumCommands.far],
              !.list[index + 1].near = BiasedNear(frustumCommands.near, index) \div 100,
              !.fb = IF cfg.debugShowGlobeDepth THEN x.framebuffer ELSE @,
              !.framebuffer = IF cfg.debugShowGlobeDepth
                              THEN Framebuffer("debugGlobeDepth", index) ELSE @]

\* the start of a slice: the working frustum takes the slice's far and its
\* near with the factor; under debugShowGlobeDepth passState.framebuffer is
\* saved in fb and set to the framebuffer of the slice's debug globe depth
SliceFrustum(x, frustumCommands, index, cfg) ==
    [x EXCEPT !.frustum = [near100 |-> BiasedNear(frustumCommands.near, index),
                           far |-> frustumCommands.far],
              !.fb = IF cfg.debugShowGlobeDepth THEN x.framebuffer ELSE @,
              !.framebuffer = IF cfg.debugShowGlobeDepth
                              THEN Framebuffer("debugGlobeDepth", index) ELSE @]

\* after the GLOBE bucket: globeDepth.executeCopyDepth, and under
\* debugShowGlobeDepth passState.framebuffer is set back to fb; not reached
\* when an execute has thrown
CopyDepth(x, index, cfg) ==
    IF x.error # "none" THEN x
    ELSE [x EXCEPT !.sceneCommands =
                       Append(@, SceneCommand("executeCopyDepth", index)),
                   !.framebuffer = IF cfg.debugShowGlobeDepth THEN x.fb ELSE @]

\* the depth clear of the nearest slice only
ClearDepthNearestOnly(x, index) ==
    IF index = 0
    THEN [x EXCEPT !.sceneCommands =
              Append(@, SceneCommand("depthClearCommand", index))]
    ELSE x

\* depthClearCommand.execute(context, passState)
ClearDepth(x, index) ==
    [x EXCEPT !.sceneCommands =
         Append(@, SceneCommand("depthClearCommand", index))]

\* the end of a slice: frustum.near = frustumCommands.near and the uniforms
\* are updated, unless an execute has thrown
RestoreFrustum(x, frustumCommands, index) ==
    IF x.error # "none" THEN x
    ELSE UpdateFrustum([x EXCEPT !.frustum.near100 = 100 * frustumCommands.near],
                       index)

\* one slice with the copy of the depth moved behind the last pass
ExecuteFrustumCopyLast(x, frustumCommands, index, cfg) ==
    RestoreFrustum(
        CopyDepth(
            ExecutePasses(
                ExecuteBucket(
                    ClearDepth(
                        UpdateFrustum(
                            SliceFrustum(x, frustumCommands, index, cfg),
                            index),
                        index),
                    frustumCommands.commands[GLOBE],
                    frustumCommands.indices[GLOBE],
                    1, index, GLOBE, cfg),
                frustumCommands, GLOBE + 1, index, cfg),
            index, cfg),
        frustumCommands, index)

\* one slice: the working frustum, the frustum update, the depth clear, the
\* GLOBE bucket, the copy of the depth, then the passes up to TRANSLUCENT
ExecuteFrustum(x, frustumCommands, index, cfg) ==
    RestoreFrustum(
        ExecutePasses(
            CopyDepth(
                ExecuteBucket(
                    ClearDepth(
                        UpdateFrustum(
                            SliceFrustum(x, frustumCommands, index, cfg),
                            index),
                        index),
                    frustumCommands.commands[GLOBE],
                    frustumCommands.indices[GLOBE],
                    1, index, GLOBE, cfg),
                index, cfg),
            frustumCommands, GLOBE + 1, index, cfg),
        frustumCommands, index)

\* the slices front to back
FrustumIndexFrontToBack(numFrustums, i) == i

\* var index = numFrustums - i - 1
FrustumIndex(numFrustums, i) == numFrustums - i - 1

RECURSIVE FrustumLoop(_, _, _, _)
\* for (i = 0; i < numFrustums; ++i), slices counted from 0 as in the code
FrustumLoop(x, frustumCommandsList, i, cfg) ==
    IF x.error # "none" \/ i >= Len(frustumCommandsList) THEN x
    ELSE FrustumLoop(
             ExecuteFrustum(
                 x,
                 frustumCommandsList[FrustumIndex(Len(frustumCommandsList), i) + 1],
                 FrustumIndex(Len(frustumCommandsList), i), cfg),
             frustumCommandsList, i + 1, cfg)

\* a frame that has not reached executeCommands
NotExecuted(error, frustumCommandsList, cfg) ==
    [executed |-> << >>, sceneCommands |-> << >>, error |-> error,
     list |-> frustumCommandsList, framebuffer |-> cfg.framebuffer]

\* the end of executeCommands: passState.framebuffer = originalFramebuffer;
\* not reached when an execute has thrown
RestoreFramebuffer(x) ==
    IF x.error # "none" THEN x ELSE [x EXCEPT !.framebuffer = x.original]

\* executeCommands(scene, passState, clearColor): passState.framebuffer is
\* saved, the working frustum is cloned from the camera's, the colour clear
\* is executed, passState.framebuffer is set to the globe depth's where
\* that is supported, the uniforms take the working frustum, then the
\* slices; at the end passState.framebuffer is set back
executeCommands(frustumCommandsList, cfg) ==
    RestoreFramebuffer(
        FrustumLoop([executed |-> << >>,
                     sceneCommands |-> << SceneCommand("clearColorCommand", Undefined),
                                          SceneCommand("updateFrustum", Undefined) >>,
                     error |-> "none",
                     list |-> frustumCommandsList,
                     frustum |-> [near100 |-> 100 * cfg.camera.near,
                                  far |-> cfg.camera.far],
                     us |-> [near100 |-> 100 * cfg.camera.near,
                             far |-> cfg.camera.far],
                     original |-> cfg.framebuffer,
                     fb |-> cfg.framebuffer,
                     framebuffer |-> IF cfg.globeDepthSupported
                                     THEN Framebuffer("globeDepth", Undefined)
                                     ELSE cfg.framebuffer],
                    frustumCommandsList, 0, cfg))

\* an event raised with (scene, time) or (scene, error)
Event(name, error) == [name |-> name, scene |-> "this", error |-> error]

\* render(scene, time): preRender first, postRender after executeCommands
\* has returned
render(error) ==
    << Event("preRender", "none") >>
        \o (IF error = "none" THEN << Event("postRender", "none") >> ELSE << >>)

\* the catch block with the error always rethrown
prototypeRenderRethrows(error, rethrowRenderErrors) ==
    [events |-> render(error)
                   \o (IF error = "none" THEN << >>
                       ELSE << Event("renderError", error) >>),
     result |-> IF error = "none" THEN "returned" ELSE "thrown",
     error |-> error]

\* SceneView.prototype.render: try { render(this, time) } catch (error)
\* { renderError is raised; the error is rethrown under rethrowRenderErrors }
prototypeRender(error, rethrowRenderErrors) ==
    [events |-> render(error)
                   \o (IF error = "none" THEN << >>
                       ELSE << Event("renderError", error) >>),
     result |-> IF error # "none" /\ rethrowRenderErrors
                THEN "thrown" ELSE "returned",
     error |-> error]

(***************************************************************************)
(* State.                                                                  *)
(***************************************************************************)
VARIABLES
    camera,                 \* camera.frustum: [near, far]
    farToNearRatio,
    scene,                  \* _mode and whether a globe is set
    debugShowFrustums,
    frameNumber,            \* frames rendered so far
    commandList,            \* _commandList
    frustumCommandsList,    \* _frustumCommandsList
    nextObj,                \* number of FrustumCommands allocated so far
    masks,                  \* debugOverlappingFrustums of the commands
    debugFrustumStatistics, \* _debugFrustumStatistics
    distances,              \* the scratch Interval
    last,                   \* what the last operation was given and found
    debugCommandFilter,     \* NoFilter or Filter(rejects)
    debugShowCommands,
    debugShowGlobeDepth,
    globeDepthSupported,    \* _globeDepth.supported
    passStateFramebuffer,   \* _passState.framebuffer
    shaderFrameCount,       \* _shaderFrameCount
    initializeFrameCalls,   \* number of calls of initializeFrame so far
    destroyedOn,            \* the calls that destroyed the released shaders
    rethrowRenderErrors,
    logRounding,            \* whether the rounding of Math.log is followed
    events,                 \* the events the last call of render raised
    outcome,                \* how the last call of render ended
    sceneCommands,          \* the scene's own steps of that call, in order
    executed                \* the buffer commands it executed, in order

vars == << camera, farToNearRatio, scene, debugShowFrustums, frameNumber,
           commandList, frustumCommandsList, nextObj, masks,
           debugFrustumStatistics, distances, last, debugCommandFilter,
           debugShowCommands, debugShowGlobeDepth, globeDepthSupported,
           passStateFramebuffer, shaderFrameCount, initializeFrameCalls,
           destroyedOn, rethrowRenderErrors, logRounding, events,
           outcome, sceneCommands, executed >>

\* initializeFrame's test of the shader frame count:
\* if (this._shaderFrameCount++ === 120) { this._shaderFrameCount = 0;
\* shaderCache.destroyReleasedShaderPrograms(); }
initializeFrame(count) ==
    [count |-> IF count = ShaderFrames THEN 0 ELSE count + 1,
     destroy |-> count = ShaderFrames]

\* the constructor: the initial guess at the frustums, and its call of
\* initializeFrame on a _shaderFrameCount of 0
Construct(near, far, ratio) ==
    LET numFrustums == NumFrustums(near, far, ratio)
        u == updateFrustums(near, far, ratio, numFrustums, << >>, 0)
    IN  /\ camera = [near |-> near, far |-> far]
        /\ farToNearRatio = ratio
        /\ frameNumber = 0
        /\ commandList = << >>
        /\ frustumCommandsList = u.list
        /\ nextObj = u.nextObj
        /\ masks = << >>
        /\ debugFrustumStatistics = [defined |-> FALSE]
        /\ distances = [start |-> 0, stop |-> 0]
        /\ last = [op |-> "construct"]
        /\ passStateFramebuffer = DefaultFramebuffer
        /\ shaderFrameCount = initializeFrame(0).count
        /\ initializeFrameCalls = 1
        /\ destroyedOn = IF initializeFrame(0).destroy THEN {1} ELSE {}
        /\ events = << >>
        /\ outcome = [result |-> "none", error |-> "none"]
        /\ sceneCommands = << >>
        /\ executed = << >>

\* debugShowGlobeDepth as the constructor leaves it, on a context that
\* supports the globe depth
GlobeDepthDefaults ==
    /\ debugShowGlobeDepth = FALSE
    /\ globeDepthSupported = TRUE

\* the constructor's debugCommandFilter, debugShowCommands,
\* debugShowGlobeDepth and rethrowRenderErrors, and exact logarithms
Defaults ==
    /\ debugCommandFilter = NoFilter
    /\ debugShowCommands = FALSE
    /\ GlobeDepthDefaults
    /\ rethrowRenderErrors = FALSE
    /\ logRounding = FALSE

Init ==
    /\ scene \in Scenes
    /\ debugShowFrustums \in BOOLEAN
    /\ Defaults
    /\ \E ratio \in 2..MaxRatio : Construct(CameraNear, CameraFar, ratio)

\* what createPotentiallyVisibleSet has of the scene: the camera, the
\* culling volume minus the far plane, the occluder and the debug settings
Env ==
    [cameraNear |-> camera.near, cameraFar |-> camera.far,
     farToNearRatio |-> farToNearRatio,
     planes |-> SubSeq(computeCullingVolume(camera.near, camera.far), 1, 5),
     occluder |-> scene.mode = "SCENE3D" /\ getOccluder(scene.mode, scene.globe),
     debug |-> debugShowFrustums,
     debugShowCommands |-> debugShowCommands,
     debugCommandFilter |-> debugCommandFilter,
     logRounding |-> logRounding]

Scn ==
    [list |-> frustumCommandsList, nextObj |-> nextObj, masks |-> masks,
     stats |-> debugFrustumStatistics, distances |-> distances]

\* what executeCommands and executeCommand read of the scene: the filter,
\* debugShowCommands || debugShowFrustums, the camera's frustum, the globe
\* depth settings and passState.framebuffer
Cfg ==
    [filter |-> debugCommandFilter,
     debug |-> debugShowCommands \/ debugShowFrustums,
     camera |-> camera,
     debugShowGlobeDepth |-> debugShowGlobeDepth,
     globeDepthSupported |-> globeDepthSupported,
     framebuffer |-> passStateFramebuffer]

\* SceneView.prototype.render(time): preRender is raised, the Command Buffer
\* is emptied, the producers fill it with cmds, createPotentiallyVisibleSet
\* bins it, executeCommands executes the buckets and postRender is raised;
\* an error ends the frame where it is thrown and is caught by the caller
Render(cmds) ==
    /\ frameNumber < MaxFrames
    /\ \E r \in {createPotentiallyVisibleSet(Scn, cmds, Env, 1)} :
       \E x \in {IF r.error = "none" THEN executeCommands(r.scn.list, Cfg)
                  ELSE NotExecuted(r.error, r.scn.list, Cfg)} :
       \E p \in {prototypeRender(x.error, rethrowRenderErrors)} :
           /\ events' = p.events
           /\ outcome' = [result |-> p.result, error |-> p.error]
           /\ sceneCommands' = x.sceneCommands
           /\ executed' = x.executed
           /\ frameNumber' = frameNumber + 1
           /\ commandList' = cmds
           /\ frustumCommandsList' = x.list
           /\ passStateFramebuffer' = x.framebuffer
           /\ nextObj' = r.scn.nextObj
           /\ masks' = r.scn.masks
           /\ debugFrustumStatistics' = r.scn.stats
           /\ distances' = r.scn.distances
           /\ last' = [op |-> "render",
                       entry |-> frustumCommandsList,
                       entryNextObj |-> nextObj,
                       scn0 |-> Scn,
                       entryOp |-> last.op,
                       entryCommands |-> commandList,
                       binned |-> r.scn.list,
                       calls |-> r.calls,
                       overflow |-> r.overflow,
                       found |-> r.last.found,
                       near |-> r.last.near,
                       far |-> r.last.far,
                       numFrustums |-> r.last.numFrustums]
    /\ UNCHANGED << camera, farToNearRatio, scene, debugShowFrustums,
                    debugCommandFilter, debugShowCommands, debugShowGlobeDepth,
                    globeDepthSupported, rethrowRenderErrors, logRounding,
                    shaderFrameCount, initializeFrameCalls, destroyedOn >>

Next == \E cmds \in Buffers(Commands) : Render(cmds)

Spec == Init /\ [][Next]_vars

(***************************************************************************)
(* Frames followed through executeCommands: under a debugCommandFilter,    *)
(* with a command that throws, under either rethrowRenderErrors, and with  *)
(* debugShowFrustums switched between frames.                              *)
(***************************************************************************)
\* what a property assignment between two frames leaves alone
UnchangedBySet ==
    UNCHANGED << frameNumber, commandList, frustumCommandsList, nextObj,
                 masks, debugFrustumStatistics, distances, events, outcome,
                 sceneCommands, executed, debugShowGlobeDepth,
                 globeDepthSupported, passStateFramebuffer,
                 shaderFrameCount, initializeFrameCalls, destroyedOn >>

\* scene.debugShowFrustums = !scene.debugShowFrustums
SetDebugShowFrustums ==
    /\ frameNumber < MaxFrames
    /\ debugShowFrustums' = ~debugShowFrustums
    /\ last' = [op |-> "set"]
    /\ UnchangedBySet
    /\ UNCHANGED << camera, farToNearRatio, scene, debugCommandFilter,
                    debugShowCommands, rethrowRenderErrors, logRounding >>

\* the filters of the frames: none, one that rejects a command of the near
\* slice, one that rejects the command that throws
Filters ==
    { NoFilter,
      Filter({ DrawCommand(OPAQUE, Sphere(3, 0, 1, FALSE), TRUE, FALSE) }),
      Filter(ThrowingCommands) }

InitFrame ==
    /\ scene \in {[mode |-> "SCENE3D", globe |-> TRUE]}
    /\ debugShowFrustums \in BOOLEAN
    /\ debugCommandFilter \in Filters
    /\ debugShowCommands \in BOOLEAN
    /\ GlobeDepthDefaults
    /\ rethrowRenderErrors \in BOOLEAN
    /\ logRounding = FALSE
    /\ Construct(CameraNear, CameraFar, 2)

NextFrame ==
    \/ \E cmds \in Buffers(FrameCommands) : Render(cmds)
    \/ SetDebugShowFrustums

SpecFrame == InitFrame /\ [][NextFrame]_vars

(***************************************************************************)
(* Frames of three commands, so that one slice holds commands of several   *)
(* passes.                                                                 *)
(***************************************************************************)
\* number of commands the producers append in these frames
FrameLength == 3

\* the Command Buffers of FrameLength distinct commands
FullBuffers(universe) ==
    { b \in [1..FrameLength -> universe] :
        \A i, j \in DOMAIN b : i # j => b[i] # b[j] }

InitPasses ==
    /\ scene \in {[mode |-> "SCENE3D", globe |-> TRUE]}
    /\ debugShowFrustums = FALSE
    /\ debugCommandFilter = NoFilter
    /\ debugShowCommands = FALSE
    /\ debugShowGlobeDepth \in BOOLEAN
    /\ globeDepthSupported \in BOOLEAN
    /\ rethrowRenderErrors = FALSE
    /\ logRounding = FALSE
    /\ Construct(CameraNear, CameraFar, 2)

NextPasses == \E cmds \in FullBuffers(FrameCommands) : Render(cmds)

SpecPasses == InitPasses /\ [][NextPasses]_vars

(***************************************************************************)
(* Frames rendered after farToNearRatio or the camera's near plane has     *)
(* been assigned a value, valid or not.                                    *)
(***************************************************************************)
\* scene.farToNearRatio = ratio
SetFarToNearRatio(ratio) ==
    /\ frameNumber < MaxFrames
    /\ ratio # farToNearRatio
    /\ farToNearRatio' = ratio
    /\ last' = [op |-> "set"]
    /\ UnchangedBySet
    /\ UNCHANGED << camera, scene, debugShowFrustums, debugCommandFilter,
                    debugShowCommands, rethrowRenderErrors, logRounding >>

\* camera.frustum.near = near
SetCameraNear(near) ==
    /\ frameNumber < MaxFrames
    /\ near # camera.near
    /\ camera' = [camera EXCEPT !.near = near]
    /\ last' = [op |-> "set"]
    /\ UnchangedBySet
    /\ UNCHANGED << farToNearRatio, scene, debugShowFrustums,
                    debugCommandFilter, debugShowCommands,
                    rethrowRenderErrors, logRounding >>

InitConfig ==
    /\ scene \in {[mode |-> "SCENE3D", globe |-> TRUE]}
    /\ debugShowFrustums = FALSE
    /\ Defaults
    /\ Construct(CameraNear, CameraFar, 2)

NextConfig ==
    \/ \E cmds \in Buffers(ConfigCommands) : Render(cmds)
    \/ \E ratio \in 0..MaxRatio : SetFarToNearRatio(ratio)
    \/ \E near \in {0, CameraNear} : SetCameraNear(near)

SpecConfig == InitConfig /\ [][NextConfig]_vars

(***************************************************************************)
(* The documented camera with the rounding of Math.log followed.           *)
(***************************************************************************)
InitRounding ==
    /\ scene \in {[mode |-> "SCENE3D", globe |-> TRUE]}
    /\ debugShowFrustums \in BOOLEAN
    /\ debugCommandFilter = NoFilter
    /\ debugShowCommands = FALSE
    /\ GlobeDepthDefaults
    /\ rethrowRenderErrors \in BOOLEAN
    /\ logRounding = TRUE
    /\ Construct(ScenarioNear, ScenarioFar, DefaultFarToNearRatio)

NextRounding == \E cmds \in Buffers(RoundingCommands) : Render(cmds)

SpecRounding == InitRounding /\ [][NextRounding]_vars

(***************************************************************************)
(* updateFrustums on its own: it is called on the list the constructor     *)
(* left, with any near < far, ratio and numFrustums, and then once more    *)
(* with the same arguments.                                                *)
(***************************************************************************)
InitPartition ==
    /\ scene \in {[mode |-> "SCENE3D", globe |-> FALSE]}
    /\ debugShowFrustums = FALSE
    /\ Defaults
    /\ \E ratio \in 2..MaxRatio : Construct(CameraNear, CameraFar, ratio)

CallUpdateFrustums(near, far, ratio, numFrustums, again) ==
    /\ \E u \in {updateFrustums(near, far, ratio, numFrustums,
                                frustumCommandsList, nextObj)} :
           /\ frustumCommandsList' = u.list
           /\ nextObj' = u.nextObj
    /\ last' = [op |-> "updateFrustums", near |-> near, far |-> far,
                ratio |-> ratio, numFrustums |-> numFrustums,
                entry |-> frustumCommandsList, entryNextObj |-> nextObj,
                repeated |-> again]
    /\ UNCHANGED << camera, farToNearRatio, scene, debugShowFrustums,
                    frameNumber, commandList, masks, debugFrustumStatistics,
                    distances, debugCommandFilter, debugShowCommands,
                    debugShowGlobeDepth, globeDepthSupported,
                    passStateFramebuffer, rethrowRenderErrors, logRounding,
                    events, outcome, sceneCommands, executed,
                    shaderFrameCount, initializeFrameCalls, destroyedOn >>

\* updateFrustums(near, far, ratio, numFrustums, list) with the count the
\* callers compute
UpdateFrustumsComputed ==
    /\ last.op = "construct"
    /\ \E near \in 1..MaxNear, ratio \in 2..MaxRatio :
       \E far \in (near + 1)..MaxFar :
           CallUpdateFrustums(near, far, ratio, NumFrustums(near, far, ratio), FALSE)

\* updateFrustums with any count
UpdateFrustumsAny ==
    /\ last.op = "construct"
    /\ \E near \in 1..MaxNear, ratio \in 2..MaxRatio, numFrustums \in 0..MaxFrustums :
       \E far \in (near + 1)..MaxFar :
           CallUpdateFrustums(near, far, ratio, numFrustums, FALSE)

\* the same call once more
UpdateFrustumsAgain ==
    /\ last.op = "updateFrustums"
    /\ ~last.repeated
    /\ CallUpdateFrustums(last.near, last.far, last.ratio, last.numFrustums, TRUE)

NextPartition == UpdateFrustumsComputed \/ UpdateFrustumsAny \/ UpdateFrustumsAgain

SpecPartition == InitPartition /\ [][NextPartition]_vars

(***************************************************************************)
(* Shapes of a slice list.                                                 *)
(***************************************************************************)
\* nears non-decreasing, near <= far in every slice, no gap between neighbours
Contiguous(list) ==
    /\ \A i \in 1..Len(list) : list[i].near <= list[i].far
    /\ \A i \in 1..(Len(list) - 1) :
           /\ list[i].near <= list[i + 1].near
           /\ list[i].far >= list[i + 1].near

C10_UpdateFrustumsIdempotent ==
    (last.op = "updateFrustums" /\ last.repeated)
    => /\ Len(frustumCommandsList) = Len(last.entry)
       /\ nextObj = last.entryNextObj
       /\ \A m \in 1..Len(frustumCommandsList) :
              /\ frustumCommandsList[m].obj = last.entry[m].obj
              /\ frustumCommandsList[m] = last.entry[m]

\* a repeated call on a list of two or more slices, some of them allocated
\* by the first call
C10_Witness ==
    /\ last.op = "updateFrustums"
    /\ last.repeated
    /\ Len(frustumCommandsList) >= 2
    /\ frustumCommandsList[Len(frustumCommandsList)].obj
           > Len(updateFrustums(CameraNear, CameraFar, MaxRatio,
                                NumFrustums(CameraNear, CameraFar, MaxRatio),
                                << >>, 0).list)

(***************************************************************************)
(* The documented scenario: camera near 1, far 1,000,000, ratio 1000.      *)
(***************************************************************************)
InitScenario ==
    /\ scene \in {[mode |-> "SCENE3D", globe |-> TRUE]}
    /\ debugShowFrustums \in BOOLEAN
    /\ Defaults
    /\ Construct(ScenarioNear, ScenarioFar, DefaultFarToNearRatio)

NextScenario == \E cmds \in Buffers(ScenarioCommands) : Render(cmds)

SpecScenario == InitScenario /\ [][NextScenario]_vars

(***************************************************************************)
(* Vocabulary of the properties.                                           *)
(***************************************************************************)
\* the entries of a bucket that count: the first indices[p] of the buffer
Live(list, n, p) == SubSeq(list[n].commands[p], 1, list[n].indices[p])

InSlice(list, n, command) ==
    \E p \in Passes : \E k \in 1..list[n].indices[p] :
        list[n].commands[p][k] = command

InBucket(list, command) == \E n \in 1..Len(list) : InSlice(list, n, command)

\* how many bucket entries of the list hold the command
Occurrences(list, command) ==
    Cardinality({ t \in (1..Len(list)) \X Passes \X (1..MaxCommands) :
                    /\ t[3] <= list[t[1]].indices[t[2]]
                    /\ list[t[1]].commands[t[2]][t[3]] = command })

\* near and far of every slice
Partition(list) == [n \in 1..Len(list) |-> << list[n].near, list[n].far >>]

\* counts and live entries of every bucket
Buckets(list) ==
    [n \in 1..Len(list) |-> [p \in Passes |-> Live(list, n, p)]]

InBuffer(command) == \E i \in DOMAIN commandList : commandList[i] = command

OccluderPresent == scene.mode = "SCENE3D" /\ scene.globe

\* the culling volume says OUTSIDE, or a present occluder hides the sphere
Rejected(command) ==
    /\ command.pass # OVERLAY
    /\ command.boundingVolume.defined
    /\ command.cull
    /\ \/ \E k \in 1..5 :
              Dot(computeCullingVolume(camera.near, camera.far)[k].normal,
                  command.boundingVolume.center)
                + computeCullingVolume(camera.near, camera.far)[k].distance
                  < 0 - command.boundingVolume.radius
       \/ (OccluderPresent /\ command.boundingVolume.behindOccluder)

\* the command is handed to insertIntoBin
Binned(command) == command.pass # OVERLAY /\ ~Rejected(command)

IntervalOf(command) ==
    IF command.boundingVolume.defined
    THEN [start |-> command.boundingVolume.center[1] - command.boundingVolume.radius,
          stop |-> command.boundingVolume.center[1] + command.boundingVolume.radius]
    ELSE [start |-> camera.near, stop |-> camera.far]

Overlaps(interval, slice) ==
    interval.start <= slice.far /\ interval.stop >= slice.near

RemoveAt(seq, i) == SubSeq(seq, 1, i - 1) \o SubSeq(seq, i + 1, Len(seq))

Rendered == last.op = "render"

(***************************************************************************)
(* Culling.                                                                *)
(***************************************************************************)
\* C2: a command with a bounding volume and cull = true that the culling
\* volume classifies OUTSIDE, or that a present occluder hides, is in no
\* slice bucket, and the slice list, the statistics, the overlap masks, the
\* discovered extent and the number of passes are those of the same frame
\* without that command in the Command Buffer.
C2_CulledCommandLeavesNoTrace ==
    Rendered =>
        \A i \in DOMAIN commandList :
            Rejected(commandList[i]) =>
                /\ ~InBucket(frustumCommandsList, commandList[i])
                /\ \E r \in {createPotentiallyVisibleSet(
                                 last.scn0, RemoveAt(commandList, i), Env, 1)} :
                       /\ r.scn = Scn
                       /\ r.calls = last.calls
                       /\ r.last.found = last.found
                       /\ r.last.near = last.near
                       /\ r.last.far = last.far

\* a frame with a culled command next to one that is binned
C2_Witness ==
    /\ Rendered
    /\ \E i, j \in DOMAIN commandList :
           /\ Rejected(commandList[i])
           /\ commandList[i].boundingVolume.behindOccluder
           /\ InBucket(frustumCommandsList, commandList[j])
    /\ last.calls = 2

\* C3 as stated: a non-OVERLAY command with a bounding volume and
\* cull = false is in at least one slice bucket wherever its sphere lies
\* (taken here for spheres of non-negative radius and frames that end with
\* a partition of at least one slice).
C3_UnculledAlwaysBinned ==
    (Rendered /\ Len(frustumCommandsList) >= 1) =>
        \A i \in DOMAIN commandList :
            (/\ commandList[i].pass # OVERLAY
             /\ commandList[i].boundingVolume.defined
             /\ commandList[i].boundingVolume.radius >= 0
             /\ ~commandList[i].cull)
            => InBucket(frustumCommandsList, commandList[i])

\* C3 amended: a non-OVERLAY command with a bounding volume and cull = false
\* is never rejected by the culling volume or the occluder; it is in a slice
\* bucket exactly when its interval overlaps a slice of the final partition.
C3_UnculledBinnedWhereItOverlaps ==
    Rendered =>
        \A i \in DOMAIN commandList :
            (/\ commandList[i].pass # OVERLAY
             /\ commandList[i].boundingVolume.defined
             /\ ~commandList[i].cull)
            => (InBucket(frustumCommandsList, commandList[i])
                <=> \E n \in 1..Len(frustumCommandsList) :
                        Overlaps(IntervalOf(commandList[i]), frustumCommandsList[n]))

\* a cull = false command outside the culling volume that was binned
C3_Witness ==
    /\ Rendered
    /\ \E i \in DOMAIN commandList :
           /\ ~commandList[i].cull
           /\ commandList[i].boundingVolume.defined
           /\ commandList[i].boundingVolume.center[2] > HalfWidth + commandList[i].boundingVolume.radius
           /\ InBucket(frustumCommandsList, commandList[i])

(***************************************************************************)
(* executeInClosestFrustum.                                                *)
(***************************************************************************)
\* C4: a binned command with executeInClosestFrustum whose interval overlaps
\* every slice of the active partition is in exactly one slice bucket, that
\* of slice 0.
C4_ClosestFrustumOnly ==
    Rendered =>
        \A i \in DOMAIN commandList :
            (/\ commandList[i].executeInClosestFrustum
             /\ Binned(commandList[i])
             /\ Len(frustumCommandsList) >= 1
             /\ \A n \in 1..Len(frustumCommandsList) :
                    Overlaps(IntervalOf(commandList[i]), frustumCommandsList[n]))
            => /\ Occurrences(frustumCommandsList, commandList[i]) = 1
               /\ InSlice(frustumCommandsList, 1, commandList[i])

\* such a command over a partition of two or more slices
C4_Witness ==
    /\ Rendered
    /\ Len(frustumCommandsList) >= 2
    /\ \E i \in DOMAIN commandList :
           /\ commandList[i].executeInClosestFrustum
           /\ Binned(commandList[i])
           /\ \A n \in 1..Len(frustumCommandsList) :
                  Overlaps(IntervalOf(commandList[i]), frustumCommandsList[n])
           /\ InSlice(frustumCommandsList, 1, commandList[i])

(***************************************************************************)
(* Repartition.                                                            *)
(***************************************************************************)
\* the extent createPotentiallyVisibleSet discovers: the least start and the
\* largest stop of the binned commands that have a bounding volume
BoundedBinned ==
    { i \in DOMAIN commandList :
        Binned(commandList[i]) /\ commandList[i].boundingVolume.defined }

SetMin(S) == CHOOSE x \in S : \A y \in S : x <= y
SetMax(S) == CHOOSE x \in S : \A y \in S : x >= y

ExtentNear == SetMin({ IntervalOf(commandList[i]).start : i \in BoundedBinned })
ExtentFar == SetMax({ IntervalOf(commandList[i]).stop : i \in BoundedBinned })
ClampedNear == Min(Max(ExtentNear, camera.near), camera.far)
ClampedFar == Max(Min(ExtentFar, camera.far), ClampedNear)

\* C5: a frame whose Command Buffer is empty, or holds only culled and
\* OVERLAY commands, does not call updateFrustums and leaves the slice list
\* (count and every near/far) as it was.
C5_EmptyFrameKeepsPartition ==
    (Rendered
     /\ \A i \in DOMAIN commandList :
            commandList[i].pass = OVERLAY \/ Rejected(commandList[i]))
    => /\ last.calls = 1
       /\ Partition(frustumCommandsList) = Partition(last.entry)

\* every command of the buffer has a bounding volume, one at least is binned,
\* and the extent lies strictly inside the partition the frame started with
C6_Case ==
    /\ Rendered
    /\ last.overflow = FALSE
    /\ \A i \in DOMAIN commandList : commandList[i].boundingVolume.defined
    /\ BoundedBinned # {}
    /\ Len(last.entry) >= 1
    /\ last.entry[1].near < ExtentNear
    /\ ExtentFar < last.entry[Len(last.entry)].far

\* C6 as stated: in that case the partition's first near and last far are
\* the clamped extent when createPotentiallyVisibleSet returns (taken here
\* for an extent of positive width).
C6_PartitionEqualsExtent ==
    (C6_Case /\ ExtentNear < ExtentFar)
    => /\ Len(frustumCommandsList) >= 1
       /\ frustumCommandsList[1].near = ClampedNear
       /\ frustumCommandsList[Len(frustumCommandsList)].far = ClampedFar

\* C6 amended: in that case, if the slice count computed from the clamped
\* extent differs from the active count the partition is rebuilt with that
\* count and, when it has a slice, runs from the clamped near to the clamped
\* far; if the count is the same the active partition is kept.
C6_PartitionRebuiltOnCountChange ==
    C6_Case
    => IF NumFrustums(ClampedNear, ClampedFar, farToNearRatio) # Len(last.entry)
       THEN /\ Len(frustumCommandsList)
                  = NumFrustums(ClampedNear, ClampedFar, farToNearRatio)
            /\ Len(frustumCommandsList) >= 1
                  => /\ frustumCommandsList[1].near = ClampedNear
                     /\ frustumCommandsList[Len(frustumCommandsList)].far = ClampedFar
       ELSE Partition(frustumCommandsList) = Partition(last.entry)

\* the case with a rebuilt partition of at least one slice
C6_Witness ==
    /\ C6_Case
    /\ Len(frustumCommandsList) # Len(last.entry)
    /\ Len(frustumCommandsList) >= 1
    /\ frustumCommandsList[1].near = ClampedNear
    /\ frustumCommandsList[1].near > camera.near

(***************************************************************************)
(* Determinism.                                                            *)
(***************************************************************************)
\* C9: a frame with the Command Buffer, camera, culling volume, occluder and
\* ratio of the frame before it, and without a repartition, leaves in every
\* slice and pass the count and the command order the frame before left.
C9_BinningRepeats ==
    (Rendered
     /\ last.entryOp = "render"
     /\ last.entryCommands = commandList
     /\ last.calls = 1)
    => Buckets(frustumCommandsList) = Buckets(last.entry)

\* two such frames with two commands in one bucket
C9_Witness ==
    /\ Rendered
    /\ last.entryOp = "render"
    /\ last.entryCommands = commandList
    /\ last.calls = 1
    /\ \E n \in 1..Len(frustumCommandsList) : \E p \in Passes :
           frustumCommandsList[n].indices[p] >= 2

(***************************************************************************)
(* The documented scenarios (SpecScenario).                                *)
(***************************************************************************)
ScenarioPartition ==
    << << ScenarioNear, DefaultFarToNearRatio * ScenarioNear >>,
       << DefaultFarToNearRatio * ScenarioNear, ScenarioFar >> >>

\* the first frame, with one opaque cull = false command within [10,50]
C7_Case ==
    /\ Rendered
    /\ last.entryOp = "construct"
    /\ Partition(last.entry) = ScenarioPartition
    /\ Len(commandList) = 1
    /\ ~commandList[1].clear
    /\ commandList[1].pass = OPAQUE
    /\ commandList[1].boundingVolume.defined
    /\ ~commandList[1].cull
    /\ IntervalOf(commandList[1]).start >= 10
    /\ IntervalOf(commandList[1]).stop <= 50
    /\ IntervalOf(commandList[1]).start < IntervalOf(commandList[1]).stop

C8_Command(command) ==
    /\ InBuffer(command)
    /\ Binned(command)
    /\ command.boundingVolume.defined
    /\ IntervalOf(command) = [start |-> 500, stop |-> 1500]

C8_InBothWithMask3(command) ==
    /\ Len(frustumCommandsList) >= 2
    /\ InSlice(frustumCommandsList, 1, command)
    /\ InSlice(frustumCommandsList, 2, command)
    /\ MaskOf(masks, command) = 3

\* C8 as stated: with debugShowFrustums on and the partition
\* [1,1000],[1000,1e6] active when createPotentiallyVisibleSet is called, a
\* command of interval [500,1500] is afterwards in both slices' buckets and
\* its mask is binary 11.
C8_MaskOfEntryPartition ==
    (Rendered /\ debugShowFrustums /\ Partition(last.entry) = ScenarioPartition)
    => \A command \in ScenarioCommands :
           C8_Command(command) => C8_InBothWithMask3(command)

\* C8 amended: that holds when [1,1000],[1000,1e6] is the partition that is
\* active when createPotentiallyVisibleSet returns.
C8_MaskOfFinalPartition ==
    (Rendered /\ debugShowFrustums
     /\ Partition(frustumCommandsList) = ScenarioPartition)
    => \A command \in ScenarioCommands :
           C8_Command(command) => C8_InBothWithMask3(command)

C8_Witness ==
    /\ Rendered
    /\ debugShowFrustums
    /\ Partition(last.entry) = ScenarioPartition
    /\ Partition(frustumCommandsList) = ScenarioPartition
    /\ \E command \in ScenarioCommands :
           C8_Command(command) /\ C8_InBothWithMask3(command)

C12_OverlayBypassesBinning ==
    Rendered =>
        \A i \in DOMAIN commandList :
            commandList[i].pass = OVERLAY =>
                /\ ~InBucket(frustumCommandsList, commandList[i])
                /\ \A c \in {createPotentiallyVisibleSet(
                                 last.scn0, RemoveAt(commandList, i), Env, 1)} :
                       /\ c.last.found = last.found
                       /\ c.scn = Scn
                       /\ c.calls = last.calls

\* a frame of an OVERLAY command without a bounding volume, or with a
\* sphere beyond the extent of the other command, next to a binned command
C12_Witness ==
    /\ Rendered
    /\ Len(frustumCommandsList) >= 1
    /\ last.found.undefBV = FALSE
    /\ \E i, j \in DOMAIN commandList :
           /\ commandList[i].pass = OVERLAY
           /\ ~commandList[i].cull
           /\ (commandList[i].boundingVolume.defined
                   => IntervalOf(commandList[i]).stop > last.found.far)
           /\ InBucket(frustumCommandsList, commandList[j])

(***************************************************************************)
(* Execution.                                                              *)
(***************************************************************************)
\* the frame reached the end of render
Completed == Rendered /\ outcome.error = "none"

\* the positions of executed at which the command's execute was called
ExecutionsOf(command) ==
    { k \in DOMAIN executed : executed[k].command = command }

\* C13: in a frame that completes without error, with no debugCommandFilter
\* and debugShowCommands and debugShowFrustums off, every OVERLAY command of the Command Buffer is
\* executed exactly once, and after every command taken from a slice.
C13_OverlayExecutedOnceAfterSlices ==
    (Completed /\ ~debugCommandFilter.defined /\ ~Cfg.debug) =>
        \A i \in DOMAIN commandList :
            commandList[i].pass = OVERLAY =>
                /\ Cardinality(ExecutionsOf(commandList[i])) = 1
                /\ \A k \in ExecutionsOf(commandList[i]) :
                   \A m \in DOMAIN executed :
                       executed[m].command.pass # OVERLAY => m < k

\* the step is the depth clear of a slice
IsDepthClear(step) == step.command = "depthClearCommand"

\* the slices whose depth clear was executed, in order
Visited ==
    [k \in 1..Len(SelectSeq(sceneCommands, IsDepthClear)) |->
        SelectSeq(sceneCommands, IsDepthClear)[k].slice]

\* the slice indices from the farthest to the nearest
BackToFront(numFrustums) == [k \in 1..numFrustums |-> numFrustums - k]

Raised(name) == { k \in DOMAIN events : events[k].name = name }

\* the command is in a bucket that executeCommands executes, and neither the
\* filter nor the missing shader program keeps its execute from being called
WouldExecute(command) ==
    /\ \E n \in 1..Len(frustumCommandsList) : \E p \in {GLOBE, OPAQUE} :
       \E k \in 1..frustumCommandsList[n].indices[p] :
           frustumCommandsList[n].commands[p][k] = command
    /\ (debugCommandFilter.defined => FilterAccepts(debugCommandFilter, command))
    /\ (Cfg.debug => HasShaderProgram(command))

\* C15: when a command's execute throws, it is the last call of the frame
\* (no further command is executed), renderError is raised exactly once,
\* with the scene and the error, and render rethrows exactly when
\* rethrowRenderErrors is true and returns normally otherwise.
C15_ExecuteErrorPropagates ==
    (Rendered /\ \E k \in DOMAIN executed : Throws(executed[k].command)) =>
        /\ \A k \in DOMAIN executed :
               Throws(executed[k].command) <=> k = Len(executed)
        /\ outcome.error = "ExecuteError"
        /\ Cardinality(Raised("renderError")) = 1
        /\ \A k \in Raised("renderError") :
               events[k] = Event("renderError", "ExecuteError")
        /\ (outcome.result = "thrown" <=> rethrowRenderErrors)
        /\ (outcome.result = "returned" <=> ~rethrowRenderErrors)

\* a frame in which the first command executed throws while another command
\* waits in a bucket, with the error swallowed
C15_Witness ==
    /\ Rendered
    /\ ~rethrowRenderErrors
    /\ Len(executed) = 1
    /\ Throws(executed[1].command)
    /\ outcome.result = "returned"
    /\ \E i \in DOMAIN commandList :
           /\ WouldExecute(commandList[i])
           /\ ExecutionsOf(commandList[i]) = {}

\* C16: every call of render raises preRender exactly once, as its first
\* event, and postRender exactly once, after preRender, also when a
\* command's execute throws and the error is swallowed.
C16_PreAndPostRenderEveryCall ==
    Rendered =>
        /\ Cardinality(Raised("preRender")) = 1
        /\ Cardinality(Raised("postRender")) = 1
        /\ events[1].name = "preRender"
        /\ \A k \in Raised("postRender") : k > 1

(***************************************************************************)
(* debugCommandFilter.                                                     *)
(***************************************************************************)
\* the execution is of a command the filter accepts
AcceptedEntry(e) == FilterAccepts(debugCommandFilter, e.command)

\* what executeCommands does on the buckets of the frame with no filter set
Unfiltered ==
    executeCommands(frustumCommandsList, [Cfg EXCEPT !.filter = NoFilter])

\* C17: under a debugCommandFilter, no command the filter rejects has its
\* execute called; the slice list, the buckets, the masks and the statistics
\* are those createPotentiallyVisibleSet left; and, unless a rejected
\* command is one whose execute would have thrown, the commands executed are
\* those of the same frame without a filter, in the same order, less the
\* rejected ones.
C17_FilterSkipsWithoutSideEffects ==
    (Rendered /\ debugCommandFilter.defined) =>
        /\ \A k \in DOMAIN executed : AcceptedEntry(executed[k])
        /\ \A c \in {createPotentiallyVisibleSet(last.scn0, commandList, Env, 1)} :
               c.scn = Scn
        /\ \A u \in {Unfiltered} :
               (\A k \in DOMAIN u.executed :
                    Throws(u.executed[k].command) => AcceptedEntry(u.executed[k]))
               => /\ executed = SelectSeq(u.executed, AcceptedEntry)
                  /\ sceneCommands = u.sceneCommands

\* a completed frame in which the filter kept a command of a bucket from
\* being executed, between or next to commands that were executed
C17_Witness ==
    /\ Completed
    /\ debugCommandFilter.defined
    /\ Len(executed) >= 1
    /\ Len(Unfiltered.executed) > Len(executed)
    /\ \E i \in DOMAIN commandList :
           /\ ~FilterAccepts(debugCommandFilter, commandList[i])
           /\ InBucket(frustumCommandsList, commandList[i])

(***************************************************************************)
(* debugFrustumStatistics.                                                 *)
(***************************************************************************)
\* C18: after every frame debugFrustumStatistics is a statistics record if
\* debugShowFrustums was enabled during that frame and is undefined
\* otherwise, also when debugShowFrustums is switched between frames.
C18_StatisticsFollowDebugShowFrustums ==
    Rendered => (debugFrustumStatistics.defined <=> debugShowFrustums)

RECURSIVE SumOver(_, _)
\* the sum of f[k] over the keys k in S
SumOver(f, S) ==
    IF S = {} THEN 0
    ELSE LET k == CHOOSE k \in S : TRUE IN f[k] + SumOver(f, S \ {k})

\* the distinct commands of the Command Buffer that are in a slice bucket
CommandsInBuckets ==
    { commandList[i] : i \in { i \in DOMAIN commandList :
                                  InBucket(frustumCommandsList, commandList[i]) } }

\* C19: with debugShowFrustums enabled, after a frame that ends with a
\* partition of at least one slice, totalCommands is the number of distinct
\* commands that are in at least one slice bucket, and the values of
\* commandsInFrustums sum to totalCommands.
C19_TotalCommandsCountsBinned ==
    (Rendered /\ debugShowFrustums /\ Len(frustumCommandsList) >= 1) =>
        /\ debugFrustumStatistics.defined
        /\ debugFrustumStatistics.totalCommands = Cardinality(CommandsInBuckets)
        /\ SumOver(debugFrustumStatistics.commandsInFrustums,
                   DOMAIN debugFrustumStatistics.commandsInFrustums)
               = debugFrustumStatistics.totalCommands

(***************************************************************************)
(* Configuration errors.                                                   *)
(***************************************************************************)
\* farToNearRatio is at most 1, or the camera's near or far is not positive
InvalidConfiguration ==
    farToNearRatio <= 1 \/ camera.near <= 0 \/ camera.far <= 0

\* C20: a frame rendered under an invalid configuration ends in an error
\* before executeCommands: no clear command of the scene and no command of
\* the Command Buffer is executed.
C20_InvalidConfigurationAbortsFrame ==
    (Rendered /\ InvalidConfiguration) =>
        /\ outcome.error # "none"
        /\ sceneCommands = << >>
        /\ executed = << >>

(***************************************************************************)
(* Invalid bounding volumes.                                               *)
(***************************************************************************)
\* a command whose sphere has a negative radius: its interval has
\* start > stop
InvalidVolume(command) ==
    /\ command.boundingVolume.defined
    /\ command.boundingVolume.radius < 0

\* C21: a non-OVERLAY command whose bounding volume is invalid (negative
\* radius) is in no slice bucket after the frame, the discovered extent is
\* that of the same frame without the command, and the binning raises no
\* error.
C21_InvalidVolumeRejected ==
    Rendered =>
        \A i \in DOMAIN commandList :
            (commandList[i].pass # OVERLAY /\ InvalidVolume(commandList[i])) =>
                /\ ~InBucket(frustumCommandsList, commandList[i])
                /\ \A c \in {createPotentiallyVisibleSet(
                                 last.scn0, RemoveAt(commandList, i), Env, 1)} :
                       c.last.found = last.found
                /\ outcome.error = "none"

(***************************************************************************)
(* Shape of the active partition.                                          *)
(***************************************************************************)
\* C22: with a camera of 0 < near < far and a ratio above 1, in every state
\* after the construction and any number of frames every slice of the
\* active partition has 0 < near <= far, the nears are non-decreasing by
\* index, and after a frame that repartitioned every slice lies within
\* [camera.near, camera.far].
C22_SlicesOrderedWithinCamera ==
    (~InvalidConfiguration /\ camera.near < camera.far) =>
        /\ \A n \in 1..Len(frustumCommandsList) :
               /\ 0 < frustumCommandsList[n].near
               /\ frustumCommandsList[n].near <= frustumCommandsList[n].far
        /\ \A n \in 1..(Len(frustumCommandsList) - 1) :
               frustumCommandsList[n].near <= frustumCommandsList[n + 1].near
        /\ (Rendered /\ last.calls >= 2) =>
               \A n \in 1..Len(frustumCommandsList) :
                   /\ camera.near <= frustumCommandsList[n].near
                   /\ frustumCommandsList[n].far <= camera.far

\* a frame that repartitioned into two or more slices from an extent that
\* reached beyond the camera's far plane
C22_Witness ==
    /\ Rendered
    /\ last.calls >= 2
    /\ ~last.found.undefBV
    /\ last.found.far > camera.far
    /\ last.found.near > camera.near
    /\ Len(frustumCommandsList) >= 2
    /\ frustumCommandsList[Len(frustumCommandsList)].far = camera.far

(***************************************************************************)
(* Diagnostic settings and the binning.                                    *)
(***************************************************************************)
\* the scene of the frame with every diagnostic setting off
DiagnosticsOff ==
    [Env EXCEPT !.debug = FALSE,
                !.debugShowCommands = FALSE,
                !.debugCommandFilter = NoFilter]

\* C23: whatever debugShowFrustums, debugShowCommands and
\* debugCommandFilter are, createPotentiallyVisibleSet ends with the
\* partition, the per-slice, per-pass counts, the bucket contents in their
\* order and the number of passes that it ends with, from the same Command
\* Buffer, camera and starting partition, when all three are off.
C23_BinningIgnoresDiagnostics ==
    Rendered =>
        \A c \in {createPotentiallyVisibleSet(
                       last.scn0, commandList, DiagnosticsOff, 1)} :
            /\ Partition(c.scn.list) = Partition(frustumCommandsList)
            /\ Buckets(c.scn.list) = Buckets(frustumCommandsList)
            /\ c.calls = last.calls
            /\ c.error = (IF outcome.error = "RangeError"
                          THEN "RangeError" ELSE "none")

\* a frame under all three diagnostic settings that repartitioned into two
\* or more slices and left a command in the buckets of two of them
C23_Witness ==
    /\ Rendered
    /\ debugShowFrustums
    /\ debugShowCommands
    /\ debugCommandFilter.defined
    /\ last.calls >= 2
    /\ Len(frustumCommandsList) >= 2
    /\ \E i \in DOMAIN commandList :
           /\ InSlice(frustumCommandsList, 1, commandList[i])
           /\ InSlice(frustumCommandsList, 2, commandList[i])
           /\ MaskOf(masks, commandList[i]) = 3

(***************************************************************************)
(* updateFrustums, slice by slice (SpecPartition).                         *)
(***************************************************************************)
\* C24: for near > 0, far > near, a ratio above 1 and numFrustums >= 1,
\* after updateFrustums the list has exactly numFrustums slices, and slice m
\* (counted from 0) has near = max(near, ratio^m * near) and
\* far = min(far, ratio * its near).
C24_SliceBounds ==
    (/\ last.op = "updateFrustums"
     /\ last.near > 0 /\ last.far > last.near /\ last.ratio > 1
     /\ last.numFrustums >= 1)
    => /\ Len(frustumCommandsList) = last.numFrustums
       /\ \A m \in 0..(last.numFrustums - 1) :
              /\ frustumCommandsList[m + 1].near
                     = Max(last.near, Pow(last.ratio, m) * last.near)
              /\ frustumCommandsList[m + 1].far
                     = Min(last.far, last.ratio * frustumCommandsList[m + 1].near)

\* a call that rewrote the slices it found and added others: three or more
\* slices, an inner one of full width and a last one cut at far
C24_Witness ==
    /\ last.op = "updateFrustums"
    /\ last.numFrustums >= 3
    /\ Len(last.entry) >= 1
    /\ Len(last.entry) < last.numFrustums
    /\ Partition(last.entry)[1] # Partition(frustumCommandsList)[1]
    /\ frustumCommandsList[2].far = last.ratio * frustumCommandsList[2].near
    /\ frustumCommandsList[last.numFrustums].far = last.far
    /\ frustumCommandsList[last.numFrustums].far
           < last.ratio * frustumCommandsList[last.numFrustums].near

(***************************************************************************)
(* insertIntoBin, slice by slice.                                          *)
(***************************************************************************)
\* how many live entries of the buckets of slice n hold the command
OccurrencesIn(list, n, command) ==
    Cardinality({ t \in Passes \X (1..MaxCommands) :
                    /\ t[2] <= list[n].indices[t[1]]
                    /\ list[n].commands[t[1]][t[2]] = command })

\* the command is handed to insertIntoBin without executeInClosestFrustum
\* and with an interval of start <= stop
C25_Command(command) ==
    /\ Binned(command)
    /\ ~command.executeInClosestFrustum
    /\ IntervalOf(command).start <= IntervalOf(command).stop

\* C25: a command handed to insertIntoBin without executeInClosestFrustum
\* and with start <= stop is, after the binning, in the buckets of slice i
\* exactly once if [start, stop] overlaps [near_i, far_i] (start <= far_i
\* and stop >= near_i) and not at all otherwise: the skip and the break drop
\* no overlapping slice.
C25_InsertedWhereOverlapping ==
    Rendered =>
        \A i \in DOMAIN commandList :
            C25_Command(commandList[i]) =>
                \A n \in 1..Len(frustumCommandsList) :
                    OccurrencesIn(frustumCommandsList, n, commandList[i])
                        = (IF Overlaps(IntervalOf(commandList[i]),
                                       frustumCommandsList[n])
                           THEN 1 ELSE 0)

\* a command that was skipped past the first slice, inserted in an inner
\* slice and left out of the last one, next to a command in every slice
C25_Witness ==
    /\ Rendered
    /\ Len(frustumCommandsList) >= 3
    /\ \E i, j \in DOMAIN commandList :
           /\ C25_Command(commandList[i])
           /\ ~InSlice(frustumCommandsList, 1, commandList[i])
           /\ InSlice(frustumCommandsList, 2, commandList[i])
           /\ ~InSlice(frustumCommandsList, Len(frustumCommandsList), commandList[i])
           /\ C25_Command(commandList[j])
           /\ \A n \in 1..Len(frustumCommandsList) :
                  InSlice(frustumCommandsList, n, commandList[j])

(***************************************************************************)
(* Commands without a bounding volume.                                     *)
(***************************************************************************)
\* a non-OVERLAY command of the Command Buffer without a bounding volume
Unbounded(command) ==
    command.pass # OVERLAY /\ ~command.boundingVolume.defined

C27_UnboundedForcesCameraExtent ==
    (Rendered
     /\ \E i \in DOMAIN commandList :
            Unbounded(commandList[i]) /\ ~commandList[i].clear)
    => /\ last.near = camera.near
       /\ last.far = camera.far

(***************************************************************************)
(* The repartition decision.                                               *)
(***************************************************************************)
\* the first binning pass of the frame: its discovered extent (found), the
\* extent after the fallback or the clamp (near, far) and the count
FirstPass == PvsPass(last.scn0, commandList, Env)

\* the count differs from the active count, or [near, far] reaches before
\* the first active slice or beyond the last one
OutgrowsPartition(near, far, numFrustums, list) ==
    \/ numFrustums # Len(list)
    \/ /\ Len(list) >= 1
       /\ (near < list[1].near \/ far > list[Len(list)].far)

\* updateFrustums and a second binning happen exactly if outgrown holds;
\* otherwise the partition is the one the frame started with and the
\* binning ran once
DecisionFollows(outgrown) ==
    /\ (last.calls >= 2) <=> outgrown
    /\ ~outgrown =>
           /\ last.calls = 1
           /\ Partition(frustumCommandsList) = Partition(last.entry)

\* C28 as stated: the decision after the first binning pass follows the
\* computed count and the discovered near and far (the camera's range when
\* a command without a bounding volume forced the fallback).
C28_DecisionFromDiscoveredExtent ==
    Rendered =>
        \A r \in {FirstPass} :
            DecisionFollows(
                OutgrowsPartition(
                    IF r.found.undefBV THEN camera.near ELSE r.found.near,
                    IF r.found.undefBV THEN camera.far ELSE r.found.far,
                    r.numFrustums, last.entry))

\* C28 amended: the decision follows the computed count and the near and
\* far the count is computed from, that is the discovered extent after the
\* clamp to the camera's range.
C28_DecisionFromClampedExtent ==
    Rendered =>
        \A r \in {FirstPass} :
            DecisionFollows(
                OutgrowsPartition(r.near, r.far, r.numFrustums, last.entry))

\* a frame that kept a partition of two or more slices and binned once,
\* with an extent that differs from the partition's and lies inside it
C28_Witness ==
    /\ Rendered
    /\ last.calls = 1
    /\ Len(frustumCommandsList) >= 2
    /\ ~last.found.undefBV
    /\ last.near > frustumCommandsList[1].near
    /\ last.far < frustumCommandsList[Len(frustumCommandsList)].far
    /\ Partition(frustumCommandsList) = Partition(last.entry)
    /\ \E i \in DOMAIN commandList : InBucket(frustumCommandsList, commandList[i])

(***************************************************************************)
(* Order of execution within a slice.                                      *)
(***************************************************************************)
\* executeCommand calls the command's execute: the filter accepts it and,
\* under debugShowCommands or debugShowFrustums, it has a shader program
Called(command) ==
    /\ (debugCommandFilter.defined => FilterAccepts(debugCommandFilter, command))
    /\ (Cfg.debug => HasShaderProgram(command))

\* the commands executed from the bucket of pass p of slice n (from 0), in
\* the order of their execution
ExecutedFrom(n, p) ==
    LET From(e) == e.slice = n /\ e.pass = p
        taken == SelectSeq(executed, From)
    IN  [k \in 1..Len(taken) |-> taken[k].command]

\* C29: of the commands executed from one slice, those of the GLOBE bucket
\* come first, then those of the buckets of the passes between GLOBE and
\* TRANSLUCENT in increasing order of the pass; no command is executed from
\* the bucket of TRANSLUCENT or of a later pass; and in a frame that
\* completes the commands executed from a bucket below TRANSLUCENT are the
\* bucket's commands whose execute is called, in bucket order.
C29_PassOrderWithinSlice ==
    Rendered =>
        /\ \A k, m \in DOMAIN executed :
               (k < m /\ executed[k].slice = executed[m].slice)
               => executed[k].pass <= executed[m].pass
        /\ \A k \in DOMAIN executed : executed[k].pass < TRANSLUCENT
        /\ Completed =>
               \A n \in 1..Len(frustumCommandsList) :
               \A p \in GLOBE..(TRANSLUCENT - 1) :
                   ExecutedFrom(n - 1, p)
                       = SelectSeq(Live(frustumCommandsList, n, p), Called)

\* a completed frame in which an OPAQUE command that precedes a GLOBE
\* command in the Command Buffer was executed after it from the same slice,
\* while a command in a TRANSLUCENT bucket was not executed
C29_Witness ==
    /\ Completed
    /\ \E k, m \in DOMAIN executed :
           /\ k < m
           /\ executed[k].slice = executed[m].slice
           /\ executed[k].pass = GLOBE
           /\ executed[m].pass = OPAQUE
           /\ \E i, j \in DOMAIN commandList :
                  /\ i < j
                  /\ commandList[i] = executed[m].command
                  /\ commandList[j] = executed[k].command
    /\ \E n \in 1..Len(frustumCommandsList) :
           /\ frustumCommandsList[n].indices[TRANSLUCENT] >= 1
           /\ ExecutionsOf(frustumCommandsList[n].commands[TRANSLUCENT][1]) = {}

(***************************************************************************)
(* The clears.                                                             *)
(***************************************************************************)
\* the positions of sceneCommands at which the step was taken
StepsOf(name, index) ==
    { k \in DOMAIN sceneCommands : sceneCommands[k] = SceneCommand(name, index) }

\* the colour clear is executed once, as the first step of executeCommands
ColorClearedOnceFirst ==
    /\ Cardinality({ k \in DOMAIN sceneCommands :
                        sceneCommands[k].command = "clearColorCommand" }) = 1
    /\ sceneCommands[1] = SceneCommand("clearColorCommand", Undefined)

\* the depth clear of slice n (from 0) is executed once, right after the
\* uniforms were updated for that slice and before every command executed
\* from that slice
DepthClearedOnce(n) ==
    /\ Cardinality(StepsOf("depthClearCommand", n)) = 1
    /\ \A k \in StepsOf("depthClearCommand", n) :
           /\ k > 1
           /\ sceneCommands[k - 1] = SceneCommand("updateFrustum", n)
           /\ \A m \in DOMAIN executed :
                  executed[m].slice = n => executed[m].after >= k

\* C30 as stated: in every frame the colour clear is executed exactly once
\* and before any slice is processed, and the depth clear exactly once for
\* every slice of the partition, after the slice's projection update and
\* before the slice's commands.
C30_ClearsInEveryFrame ==
    Rendered =>
        /\ ColorClearedOnceFirst
        /\ \A n \in 0..(Len(frustumCommandsList) - 1) : DepthClearedOnce(n)

\* C30 amended: that holds in every frame in which no command's execute
\* throws; in a frame in which one throws, the colour clear is executed
\* once and first, the depth clear once, after the projection update and
\* before the slice's commands, for the slices from the farthest down to
\* the one the command was taken from, and for no nearer slice.
C30_ClearsUpToThrow ==
    Rendered =>
        /\ ColorClearedOnceFirst
        /\ \A n \in 0..(Len(frustumCommandsList) - 1) :
               IF Completed \/ n >= executed[Len(executed)].slice
               THEN DepthClearedOnce(n)
               ELSE StepsOf("depthClearCommand", n) = {}

\* a completed frame over two or more slices with commands executed from
\* two of them, each after its slice's depth clear
C30_Witness ==
    /\ Completed
    /\ Len(frustumCommandsList) >= 2
    /\ \A n \in 0..(Len(frustumCommandsList) - 1) : DepthClearedOnce(n)
    /\ \E k, m \in DOMAIN executed :
           /\ executed[k].slice > executed[m].slice
           /\ \E j \in 1..executed[k].after :
                  sceneCommands[j]
                      = SceneCommand("depthClearCommand", executed[k].slice)
           /\ \E j \in 1..executed[m].after :
                  sceneCommands[j]
                      = SceneCommand("depthClearCommand", executed[m].slice)

(***************************************************************************)
(* The calls of initializeFrame, which the owner of the scene makes once   *)
(* before every frame.                                                     *)
(***************************************************************************)
InitShader ==
    /\ scene \in {[mode |-> "SCENE3D", globe |-> TRUE]}
    /\ debugShowFrustums = FALSE
    /\ Defaults
    /\ Construct(CameraNear, CameraFar, 2)

\* SceneView.prototype.initializeFrame(): the shader frame count is tested
\* and incremented; the updates of the tweens, the camera and the camera
\* controller change nothing that is followed here
InitializeFrame ==
    /\ initializeFrameCalls < MaxCalls
    /\ \E r \in {initializeFrame(shaderFrameCount)} :
           /\ shaderFrameCount' = r.count
           /\ initializeFrameCalls' = initializeFrameCalls + 1
           /\ destroyedOn' = IF r.destroy
                             THEN destroyedOn \cup {initializeFrameCalls + 1}
                             ELSE destroyedOn
    /\ UNCHANGED << camera, farToNearRatio, scene, debugShowFrustums,
                    frameNumber, commandList, frustumCommandsList, nextObj,
                    masks, debugFrustumStatistics, distances, last,
                    debugCommandFilter, debugShowCommands, debugShowGlobeDepth,
                    globeDepthSupported, passStateFramebuffer,
                    rethrowRenderErrors, logRounding, events, outcome,
                    sceneCommands, executed >>

NextShader == InitializeFrame

SpecShader == InitShader /\ [][NextShader]_vars

(***************************************************************************)
(* The copy of the depth.                                                  *)
(***************************************************************************)
\* C31 as stated: the copy of a slice's depth comes after every command
\* executed from the slice's buckets, those of the GLOBE pass and those of
\* the passes between GLOBE and TRANSLUCENT
C31_CopyAfterEveryBucket ==
    Rendered =>
        \A k \in DOMAIN executed :
        \A j \in StepsOf("executeCopyDepth", executed[k].slice) :
            executed[k].after < j

\* C31: the copy of a slice's depth comes after the commands executed from
\* the slice's GLOBE bucket and before the commands executed from the
\* buckets of its other passes, none of which is executed without the copy
\* before it; a frame that completes copies the depth once for each slice
C31_CopyAfterGlobeBucket ==
    Rendered =>
        /\ \A k \in DOMAIN executed :
           \A j \in StepsOf("executeCopyDepth", executed[k].slice) :
               IF executed[k].pass = GLOBE
               THEN executed[k].after < j
               ELSE executed[k].after >= j
        /\ \A k \in DOMAIN executed :
               executed[k].pass # GLOBE
               => StepsOf("executeCopyDepth", executed[k].slice) # {}
        /\ Completed =>
               \A n \in 1..Len(frustumCommandsList) :
                   Cardinality(StepsOf("executeCopyDepth", n - 1)) = 1

\* a completed frame in which a GLOBE command and an OPAQUE command were
\* executed from one slice, the copy of that slice's depth between them
C31_Witness ==
    /\ Completed
    /\ \E k, m \in DOMAIN executed :
           /\ executed[k].slice = executed[m].slice
           /\ executed[k].pass = GLOBE
           /\ executed[m].pass = OPAQUE
           /\ \E j \in StepsOf("executeCopyDepth", executed[k].slice) :
                  executed[k].after < j /\ j <= executed[m].after

(***************************************************************************)
(* The projection of a slice.                                              *)
(***************************************************************************)
\* C32: every command executed from slice i was executed under a
\* projection whose far is the slice's far and whose near, in hundredths,
\* is 99 times the slice's near when i is not 0 and 100 times the slice's
\* near, the near itself, when i is 0
C32_ProjectionOfSlice ==
    Rendered =>
        \A k \in DOMAIN executed :
            /\ executed[k].projection.far
                   = frustumCommandsList[executed[k].slice + 1].far
            /\ executed[k].projection.near100
                   = IF executed[k].slice # 0
                     THEN 99 * frustumCommandsList[executed[k].slice + 1].near
                     ELSE 100 * frustumCommandsList[executed[k].slice + 1].near

\* a frame in which commands were executed from slice 0 and from a farther
\* slice, under different projections
C32_Witness ==
    /\ Completed
    /\ \E k, m \in DOMAIN executed :
           /\ executed[k].slice = 0
           /\ executed[m].slice > 0
           /\ executed[k].projection.near100
                  = 100 * frustumCommandsList[1].near
           /\ executed[m].projection.near100
                  < 100 * frustumCommandsList[executed[m].slice + 1].near

(***************************************************************************)
(* The partition across executeCommands.                                   *)
(***************************************************************************)
\* C33: after a frame, whether executeCommands returned or an execute
\* threw, the slice list is the one createPotentiallyVisibleSet left: the
\* same number of slices, each with the same near and far and the same
\* count and contents of every bucket
C33_PartitionUnchangedByExecution ==
    Rendered => frustumCommandsList = last.binned

\* a frame in which a command was executed from a slice other than the
\* nearest, under a near smaller than the slice's, and an execute threw
\* before the near of the working frustum was set back
C33_Witness ==
    /\ Rendered
    /\ outcome.error # "none"
    /\ \E k \in DOMAIN executed :
           /\ executed[k].slice > 0
           /\ executed[k].projection.near100
                  < 100 * last.binned[executed[k].slice + 1].near
           /\ Throws(executed[k].command)

(***************************************************************************)
(* Stale entries.                                                          *)
(***************************************************************************)
\* C34: every command executed in a frame is in the Command Buffer of that
\* frame and stands in the bucket it was executed from within the count
\* the frame's last binning pass left; an entry beyond the count is not
\* executed
C34_OnlyThisFramesCommandsExecuted ==
    Rendered =>
        \A k \in DOMAIN executed :
            /\ InBuffer(executed[k].command)
            /\ executed[k].slice + 1 \in 1..Len(frustumCommandsList)
            /\ \E i \in 1..frustumCommandsList[executed[k].slice + 1]
                               .indices[executed[k].pass] :
                   frustumCommandsList[executed[k].slice + 1]
                       .commands[executed[k].pass][i] = executed[k].command

\* a second frame in which a command was executed from a bucket that still
\* holds, beyond its count, a command of the frame before that is not in
\* this frame's Command Buffer
C34_Witness ==
    /\ Rendered
    /\ frameNumber = 2
    /\ \E k \in DOMAIN executed :
       \E s \in {frustumCommandsList[executed[k].slice + 1]} :
           /\ Len(s.commands[executed[k].pass]) > s.indices[executed[k].pass]
           /\ ~InBuffer(s.commands[executed[k].pass]
                            [s.indices[executed[k].pass] + 1])
           /\ s.commands[executed[k].pass][s.indices[executed[k].pass] + 1]
                  \in { last.entryCommands[i] : i \in DOMAIN last.entryCommands }

(***************************************************************************)
(* Reuse of the slice objects.                                             *)
(***************************************************************************)
\* C35: the slice at an index is the first slice object that was ever
\* created for that index.  The slice objects are numbered in the order of
\* their creation and a list that grows creates them in the order of the
\* indices, so the first object of index m (from 1) is object m, and a
\* slice with another number was created after the list had been cut
\* below its index
C35_SliceObjectsNeverReallocated ==
    \A m \in DOMAIN frustumCommandsList : frustumCommandsList[m].obj = m

(***************************************************************************)
(* Execution under the debug flags.                                        *)
(***************************************************************************)
\* C36: in a frame that reached executeCommands, the sequence of the
\* commands whose execute was called is the one executeCommands calls on
\* the same buckets with debugShowCommands and debugShowFrustums off
C36_SameExecutionUnderDebug ==
    (Rendered /\ sceneCommands # << >>) =>
        \A y \in {executeCommands(last.binned, [Cfg EXCEPT !.debug = FALSE])} :
            executed = y.executed

(***************************************************************************)
(* No visible command is lost.                                             *)
(***************************************************************************)
\* C37: after a frame whose binning gave no error, every command of the
\* Command Buffer that is not an OVERLAY command, was not rejected by the
\* culling and has an interval [start, stop], start <= stop, that meets
\* [camera.near, camera.far] is in a bucket of some slice
C37_NoVisibleCommandLost ==
    (Rendered /\ ~last.overflow /\ (sceneCommands # << >>)) =>
        \A i \in DOMAIN commandList :
            (/\ Binned(commandList[i])
             /\ IntervalOf(commandList[i]).start <= IntervalOf(commandList[i]).stop
             /\ IntervalOf(commandList[i]).start <= camera.far
             /\ IntervalOf(commandList[i]).stop >= camera.near)
            => InBucket(frustumCommandsList, commandList[i])

(***************************************************************************)
(* passState.framebuffer across frames.                                    *)
(***************************************************************************)
\* C38: before and after every frame, and so at the start of every
\* frame's executeCommands, passState.framebuffer is the framebuffer it
\* held before the first frame, also after a frame in which an execute
\* threw and the error was not rethrown
C38_FramebufferRestored ==
    passStateFramebuffer = DefaultFramebuffer

(***************************************************************************)
(* The destruction of the released shaders.                                *)
(***************************************************************************)
\* C39: the released shaders are destroyed once every 120 calls of
\* initializeFrame: two calls that destroy with none between them are 120
\* calls apart and 120 calls do not pass without one, however the
\* constructor's call is counted; between the calls _shaderFrameCount is
\* within 0..120
C39_DestroyedEvery120Calls ==
    /\ shaderFrameCount \in 0..ShaderFrames
    /\ \A a, b \in destroyedOn :
           (a < b /\ \A c \in destroyedOn : ~(a < c /\ c < b))
           => b - a = ShaderFrames
    /\ \A a \in 1..initializeFrameCalls :
           a + ShaderFrames - 1 <= initializeFrameCalls
           => \E c \in destroyedOn : a <= c /\ c <= a + ShaderFrames - 1

============================================================================
